---- MODULE Spec2Model ----
(***************************************************************************)
(* Connectivity and dispatch layer of the MQTT dashboard backend:          *)
(*   - MQTTClient          (app/mqtt_client.py): the broker connection,    *)
(*     its registration table _message_callbacks and the topic matcher;    *)
(*   - SubscriptionManager (app/services/subscription_manager.py): the     *)
(*     per-session subscription multiplexer with its two indices.          *)
(*                                                                         *)
(* A topic or a pattern is the sequence of its '/'-separated segments,     *)
(* i.e. the value of str.split("/").  A Python dict is a function whose    *)
(* DOMAIN is the set of keys.  Every handler is one action; the handler's  *)
(* code is written as operators over a state record (St) so that a         *)
(* handler that calls another handler is the composition of operators.     *)
(* Each block of a handler that runs under the component's lock is one     *)
(* operator.                                                               *)
(***************************************************************************)
EXTENDS Integers, Sequences, FiniteSets, TLC

VARIABLES
    client,                 \* MQTTClient._client is not None
    connected,              \* MQTTClient._connected
    stop_reconnect,         \* MQTTClient._stop_reconnect is set
    reconnect_thread,       \* MQTTClient._reconnect_thread is alive
    loop_running,           \* the paho network loop of self._client is running (loop_start)
    pending_ack,            \* a CONNECT was sent whose acknowledgement has not arrived
    api_state,              \* history: how the latest connect() / disconnect() call ended
    message_callbacks,      \* MQTTClient._message_callbacks: pattern -> list of callbacks
    topic_clients,          \* SubscriptionManager._topic_clients: pattern -> set of sessions
    client_subscriptions,   \* SubscriptionManager._client_subscriptions: session -> set of patterns
    mqtt_subscriptions,     \* SubscriptionManager._mqtt_subscriptions: pattern -> callback
    message_callback,       \* SubscriptionManager._message_callback is set
    lastOp,                 \* history: the handler that ran last, its arguments and result
    calls,                  \* history: Broker Connection and network calls of that handler
    steps,                  \* history: the two indices each time that handler released the lock
    forwards,               \* history: forwarding-callback invocations of the last dispatch
    invocations,            \* history: callback invocations of the last MQTTClient._on_message
    stats,                  \* SysMonitor._stats, the BrokerStats record
    sys_lock,               \* SysMonitor._lock (a non-reentrant threading.Lock) is held
    sys_pc,                 \* where the thread running _on_sys_message stands
    update_callbacks,       \* SysMonitor._update_callbacks
    now,                    \* the clock datetime.now(timezone.utc) reads
    notified,               \* history: update-callback invocations of the last _on_sys_message
    held,                   \* the snapshot an API caller got from get_stats() and keeps
    sys_last,               \* history: the SysMonitor operation that ran last
    m_pattern,              \* matcher input: pattern.split("/")
    m_topic,                \* matcher input: topic.split("/")
    m_done,                 \* _topic_matches has been applied to the inputs
    m_result,               \* its result
    b_phase,                \* MQTTBridge: "new", "running" (start() returned True),
                            \* "blocked" (start() does not return), "failed", "stopped"
    b_stats,                \* MQTTBridge._stats
    b_last_publish,         \* MQTTBridge._last_stats_publish
    b_now,                  \* the clock time.time() reads in the bridge process
    b_topic_callbacks,      \* keys of MQTTBridge._topic_callbacks
    b_published,            \* external bus: the latest statistics snapshot published
    b_pub_time,             \* external bus: when that snapshot was published
    b_status,               \* external bus: the latest connection status published
    b_unsub_seen,           \* history: an unsubscribe command has been handled
    bus,                    \* history: what the last bridge handler published on the bus
    attempts,               \* history: the cleanup steps the last stop() attempted
    b_last,                 \* history: the bridge handler that ran last and its input
    t_topics,               \* TopicTracker._topics
    t_timeout,              \* TopicTracker._inactive_timeout
    t_now,                  \* the clock datetime.now(timezone.utc) reads in the tracker
    t_observed,             \* history: qualifying messages seen since each record was created
    t_last,                 \* history: the tracker operation that ran last and its result
    r_subscriptions,        \* RedisClient._subscriptions: channel -> callback
    r_pubsub,               \* channels self._pubsub is subscribed to
    r_running,              \* RedisClient._running
    r_listener,             \* RedisClient._listener_thread is alive
    r_lock,                 \* holder of RedisClient._subscription_lock (a non-reentrant Lock)
    r_pc,                   \* where each thread calling the RedisClient stands
    s_init,                 \* per service: "no", or the connection state its init function saw
    s_subscribed,           \* per service: its _subscribed flag
    x_pc,                   \* per session: where its call on the SubscriptionManager stands
    x_ret,                  \* per session: the call it completed last and what it returned
    f_pc,                   \* the subscribe() call whose network call is in flight, if any
    l_pc,                   \* per reconnect-loop thread: where it stands in _reconnect_loop
    l_ref,                  \* MQTTClient._reconnect_thread: a thread, or 0 for None
    d_pc,                   \* where the caller of disconnect() stands
    p_pc,                   \* per network-loop thread of paho: where it stands
    p_link                  \* per paho client: the state of its link to the broker

mqttVars == <<client, connected, stop_reconnect, reconnect_thread, loop_running,
              pending_ack, api_state, message_callbacks>>

muxVars == <<topic_clients, client_subscriptions, mqtt_subscriptions, message_callback>>

historyVars == <<lastOp, calls, steps, forwards, invocations>>

sysVars == <<stats, sys_lock, sys_pc, update_callbacks, now, notified, held, sys_last>>

matchVars == <<m_pattern, m_topic, m_done, m_result>>

bridgeVars == <<b_phase, b_stats, b_last_publish, b_now, b_topic_callbacks, b_published,
                b_pub_time, b_status, b_unsub_seen, bus, attempts, b_last>>

trackerVars == <<t_topics, t_timeout, t_now, t_observed, t_last>>

redisVars == <<r_subscriptions, r_pubsub, r_running, r_listener, r_lock, r_pc>>

svcVars == <<s_init, s_subscribed>>

\* The components added to the model after the tracker.
raceVars == <<x_pc, x_ret>>

flightVars == <<f_pc>>

loopVars == <<l_pc, l_ref, d_pc, p_pc, p_link>>

restVars == <<redisVars, svcVars, raceVars, flightVars, loopVars>>

\* The components of restVars other than the RedisClient.
exceptRedis == <<svcVars, raceVars, flightVars, loopVars>>

\* The components of restVars other than the services.
exceptSvc == <<redisVars, raceVars, flightVars, loopVars>>

\* The components of restVars other than the concurrent multiplexer calls.
exceptRace == <<redisVars, svcVars, flightVars, loopVars>>

\* The components of restVars other than the subscribe() call in flight.
exceptFlight == <<redisVars, svcVars, raceVars, loopVars>>

\* The components of restVars other than the reconnection threads.
exceptLoop == <<redisVars, svcVars, raceVars, flightVars>>

vars == <<mqttVars, muxVars, historyVars, sysVars, matchVars, bridgeVars, trackerVars, restVars>>

-----------------------------------------------------------------------------
(* Bounds and input sets *)

\* Longest callback list the model lets one pattern accumulate.
MaxCallbacks == 2

Sessions == {"s1", "s2"}

Patterns == {<<"home", "#">>, <<"office", "#">>}

Topics == {<<"home", "temp">>, <<"office", "desk">>}

Payloads == {"21.3"}

\* Outcome of a paho call made inside a try block: rc == MQTT_ERR_SUCCESS,
\* another rc, or an exception.
NetOutcomes == {"ok", "fail", "raise"}

\* Inputs of the Broker Connection used on its own: filters of which two match
\* the same topic, the callbacks registered by callers other than the
\* multiplexer, and raw payloads (bytes): ASCII "21", "é" in UTF-8 (two
\* bytes), and 0xFF, which is not UTF-8.
ClientPatterns == {<<"home", "#">>, <<"home", "+">>}

Callbacks == {"cb1", "cb2"}

RawPayloads == {<<50, 49>>, <<195, 169>>, <<255>>}

NoSession == "-"

NoTopic == <<>>

NoPayload == ""

\* Longest pattern and topic, in segments, the matcher is applied to.
MaxSegments == 3

\* Segments of the patterns and of the (literal) topics given to the matcher;
\* "" is the empty segment that two consecutive "/" yield.
PatternSegments == {"a", "b", "", "+", "#"}

TopicSegments == {"a", "b", ""}

\* split("/") yields at least one segment.
SegmentSeqs(S) == UNION {[1..k -> S] : k \in 1..MaxSegments}

\* Latest reading of the clock.
MaxClock == 2

\* MQTTBridge.stats_publish_interval, in seconds.
StatsPublishInterval == 5

\* Latest reading of the bridge's clock.
MaxBridgeClock == 11

\* Metric topics fed to the Bridge: one with a suffix-tolerant converter, one
\* with a plain int converter, one that is not in its table.
BridgeSysTopics == {"$SYS/broker/uptime", "$SYS/broker/clients/connected",
                    "$SYS/broker/unknown"}

\* Payload strings fed to the Bridge: "42 s", "7" and "x".
BridgePayloads == {<<"4", "2", " ", "s">>, <<"7">>, <<"x">>}

\* The empty topic string, as a list of levels.
EmptyTopic == <<"">>

\* Topics named by the commands sent to the Bridge; the last two match the
\* same inbound topic.
CommandTopics == {EmptyTopic, <<"home", "#">>, <<"home", "temp">>}

\* The commands read from the command channel: a field that is None is absent
\* from the dictionary.
Commands ==
    [type : {"cmd_publish"},
     topic : {<<>>, <<EmptyTopic>>, <<<<"home", "temp">>>>},
     payload : {<<"on">>},
     qos : {<<>>, <<0>>, <<2>>, <<5>>},
     retain : {<<>>, <<TRUE>>}]
    \cup [type : {"cmd_subscribe", "cmd_unsubscribe"},
          topic : {<<>>} \cup {<<t>> : t \in CommandTopics},
          payload : {<<>>},
          qos : {<<>>},
          retain : {<<>>}]
    \cup [type : {"other"}, topic : {<<>>}, payload : {<<>>}, qos : {<<>>}, retain : {<<>>}]

\* Latest reading of the tracker's clock.
MaxTrackerClock == 4

\* Largest message count of a record.
MaxMessages == 2

\* The reconnect-loop threads a run may create.
MaxLoops == 2

\* inactive_timeout and max_payload_size the tracker is constructed with.
InactiveTimeout == 2

MaxPayloadSize == 2

\* Topics of the messages fed to the tracker.
TrackerTopics == {<<"home", "temp">>, <<"office", "desk">>, <<"$SYS", "broker", "uptime">>}

\* Payloads fed to the tracker: one within max_payload_size, one beyond it.
TrackerPayloads == {<<"a">>, <<"a", "b", "c">>}

\* Threads that call the RedisClient, the channels and the callbacks they pass.
RedisThreads == {"t1", "t2"}

Channels == {"mqtt:commands", "mqtt:messages"}

ChannelCallbacks == {"h1", "h2"}

\* Longest list of update callbacks.
MaxUpdateCallbacks == 2

UpdateCallbacks == {"u1", "u2"}

\* Metric topics fed to the Metrics Cache: one per value type of the mapping
\* table, a second integer one, and one that is not in the table.
SysTopics == {"$SYS/broker/version", "$SYS/broker/uptime", "$SYS/broker/clients/connected",
              "$SYS/broker/load/messages/received/1min", "$SYS/broker/unknown"}

\* Payload strings, as sequences of characters: " 7", "42", "-3", "1.5",
\* "42 s", "x" and the empty string.
SysPayloads == {<<" ", "7">>, <<"4", "2">>, <<"-", "3">>, <<"1", ".", "5">>,
                <<"4", "2", " ", "s">>, <<"x">>, <<>>}

-----------------------------------------------------------------------------
(* Python dict and list helpers *)

EmptyDict == [k \in {} |-> {}]

DictGet(d, k, default) == IF k \in DOMAIN d THEN d[k] ELSE default

DictSet(d, k, v) == [x \in (DOMAIN d) \cup {k} |-> IF x = k THEN v ELSE d[x]]

DictDel(d, k) == [x \in (DOMAIN d) \ {k} |-> d[x]]

\* list(s) of a Python set or list(d.keys()) in any iteration order.
Orderings(S) ==
    {q \in [1..Cardinality(S) -> S] : \A x \in S : \E i \in 1..Cardinality(S) : q[i] = x}

-----------------------------------------------------------------------------
(* Topic matcher: MQTTClient._topic_matches *)

RECURSIVE MatchFromNonEmptyPlus(_, _, _)
\* Matcher whose "+" refuses an empty segment.
MatchFromNonEmptyPlus(pattern_parts, topic_parts, i) ==
    IF i > Len(pattern_parts)
    THEN Len(pattern_parts) = Len(topic_parts)
    ELSE IF pattern_parts[i] = "#" THEN TRUE
    ELSE IF i > Len(topic_parts) THEN FALSE
    ELSE IF pattern_parts[i] = "+" /\ topic_parts[i] = "" THEN FALSE
    ELSE IF pattern_parts[i] # "+" /\ pattern_parts[i] # topic_parts[i] THEN FALSE
    ELSE MatchFromNonEmptyPlus(pattern_parts, topic_parts, i + 1)

RECURSIVE MatchFrom(_, _, _)
\* The for loop over enumerate(pattern_parts), entered at (1-based) index i.
MatchFrom(pattern_parts, topic_parts, i) ==
    IF i > Len(pattern_parts)
    THEN Len(pattern_parts) = Len(topic_parts)
    ELSE IF pattern_parts[i] = "#" THEN TRUE
    ELSE IF i > Len(topic_parts) THEN FALSE
    ELSE IF pattern_parts[i] # "+" /\ pattern_parts[i] # topic_parts[i] THEN FALSE
    ELSE MatchFrom(pattern_parts, topic_parts, i + 1)

TopicMatches(pattern, topic) == MatchFrom(pattern, topic, 1)

-----------------------------------------------------------------------------
(* The state record the handlers transform *)

St ==
    [client |-> client, connected |-> connected,
     stop_reconnect |-> stop_reconnect, reconnect_thread |-> reconnect_thread,
     loop_running |-> loop_running, pending_ack |-> pending_ack, api_state |-> api_state,
     message_callbacks |-> message_callbacks,
     topic_clients |-> topic_clients, client_subscriptions |-> client_subscriptions,
     mqtt_subscriptions |-> mqtt_subscriptions,
     calls |-> <<>>, steps |-> <<>>, invocations |-> <<>>, ret |-> FALSE]

\* A call made by a handler: layer "mqtt" is a call of the Broker Connection's
\* public method, layer "net" a call of the paho client (the network level);
\* rc is the outcome of a paho call whose result the caller reads, else "-".
Call(layer, op, topic, rc) == [layer |-> layer, op |-> op, topic |-> topic, rc |-> rc]

\* The two multiplexer indices at a moment the SubscriptionManager lock is released.
Snap(st) ==
    [st EXCEPT !.steps = Append(@, [tc |-> st.topic_clients, cs |-> st.client_subscriptions])]

\* The closure on_message created by _subscribe_to_mqtt_topic(topic).
MuxCallback(topic) == [owner |-> "mux", topic |-> topic]

-----------------------------------------------------------------------------
(* MQTTClient *)

\* subscribe() variant that registers the callback before looking at the connection.
MqttSubscribeRegisterFirst(st, topic, callback, rc) ==
    LET reg == [st EXCEPT
                   !.calls = Append(@, Call("mqtt", "subscribe", topic, "-")),
                   !.message_callbacks =
                       DictSet(@, topic, Append(DictGet(@, topic, <<>>), callback))]
    IN  IF ~reg.connected \/ ~reg.client
        THEN [reg EXCEPT !.ret = FALSE]
        ELSE [reg EXCEPT !.calls = Append(@, Call("net", "subscribe", topic, rc)),
                         !.ret = (rc = "ok")]

\* MQTTClient.subscribe(topic, callback, qos); rc is the outcome of
\* self._client.subscribe(topic, qos=qos).
MqttSubscribe(st, topic, callback, rc) ==
    LET called == [st EXCEPT !.calls = Append(@, Call("mqtt", "subscribe", topic, "-"))]
    IN  IF ~called.connected \/ ~called.client
        THEN [called EXCEPT !.ret = FALSE]
        ELSE LET reg == [called EXCEPT
                            !.message_callbacks =
                                DictSet(@, topic, Append(DictGet(@, topic, <<>>), callback)),
                            !.calls = Append(@, Call("net", "subscribe", topic, rc))]
             IN  IF rc = "ok"
                 THEN [reg EXCEPT !.ret = TRUE]
                 ELSE [reg EXCEPT !.ret = FALSE]

\* MQTTClient.unsubscribe(topic); rc is the outcome of self._client.unsubscribe(topic).
MqttUnsubscribe(st, topic, rc) ==
    LET called == [st EXCEPT !.calls = Append(@, Call("mqtt", "unsubscribe", topic, "-"))]
    IN  IF ~called.connected \/ ~called.client
        THEN [called EXCEPT !.ret = FALSE]
        ELSE LET popped == [called EXCEPT
                               !.message_callbacks = DictDel(@, topic),
                               !.calls = Append(@, Call("net", "unsubscribe", topic, rc))]
             IN  IF rc = "ok"
                 THEN [popped EXCEPT !.ret = TRUE]
                 ELSE [popped EXCEPT !.ret = FALSE]

RECURSIVE ResubscribeEach(_, _)
\* The loop "for topic in topics: self._client.subscribe(topic)" of _on_connect;
\* the result of each call is ignored.
ResubscribeEach(st, topics) ==
    IF topics = <<>> THEN st
    ELSE ResubscribeEach([st EXCEPT !.calls = Append(@, Call("net", "subscribe", Head(topics), "-"))],
                         Tail(topics))

\* MQTTClient._on_connect variant that re-subscribes only the first pattern.
OnConnectFirstOnly(st, reason_ok, topics) ==
    LET flagged == [st EXCEPT !.connected = reason_ok]
    IN  IF flagged.connected
        THEN ResubscribeEach(flagged, IF topics = <<>> THEN <<>> ELSE <<Head(topics)>>)
        ELSE flagged

\* MQTTClient._on_connect; reason_ok is "reason_code == 0 or not is_failure",
\* topics is list(self._message_callbacks.keys()).
OnConnect(st, reason_ok, topics) ==
    LET flagged == [st EXCEPT !.connected = reason_ok]
    IN  IF flagged.connected
        THEN ResubscribeEach(flagged, topics)
        ELSE flagged

\* A callback passed to MQTTClient.subscribe by a caller other than the multiplexer.
ExtCallback(id) == [owner |-> id, topic |-> NoTopic]

RECURSIVE IsUtf8From(_, _)
\* bytes.decode("utf-8") accepts the bytes from position i on; one- and
\* two-byte sequences only (the inputs hold no longer ones).
IsUtf8From(bytes, i) ==
    IF i > Len(bytes) THEN TRUE
    ELSE IF bytes[i] < 128 THEN IsUtf8From(bytes, i + 1)
    ELSE IF /\ bytes[i] >= 194 /\ bytes[i] <= 223
            /\ i + 1 <= Len(bytes)
            /\ bytes[i + 1] >= 128 /\ bytes[i + 1] <= 191
         THEN IsUtf8From(bytes, i + 2)
    ELSE FALSE

RECURSIVE Utf8From(_, _)
\* The code points bytes.decode("utf-8") yields from position i on.
Utf8From(bytes, i) ==
    IF i > Len(bytes) THEN <<>>
    ELSE IF bytes[i] < 128 THEN <<bytes[i]>> \o Utf8From(bytes, i + 1)
    ELSE <<(bytes[i] - 192) * 64 + (bytes[i + 1] - 128)>> \o Utf8From(bytes, i + 2)

\* Code point of the hexadecimal digit d (0..15) as bytes.hex() writes it.
HexDigit(d) == IF d < 10 THEN 48 + d ELSE 87 + d

RECURSIVE HexFrom(_, _)
\* bytes.hex(): two lower-case digits per byte.
HexFrom(bytes, i) ==
    IF i > Len(bytes) THEN <<>>
    ELSE <<HexDigit(bytes[i] \div 16), HexDigit(bytes[i] % 16)>> \o HexFrom(bytes, i + 1)

\* The payload string _on_message hands to the callbacks (a sequence of code
\* points): the UTF-8 decoding, or the hex string when decoding fails.
DecodePayload(bytes) ==
    IF IsUtf8From(bytes, 1) THEN Utf8From(bytes, 1) ELSE HexFrom(bytes, 1)

RECURSIVE CollectCallbacks(_, _)
\* callbacks_to_call: the callback lists of the patterns in `order` (the
\* matching patterns, in the iteration order of the dict), concatenated.
CollectCallbacks(mc, order) ==
    IF order = <<>> THEN <<>>
    ELSE mc[Head(order)] \o CollectCallbacks(mc, Tail(order))

RECURSIVE InvokeEachUntilRaise(_, _, _, _)
\* Dispatch loop that lets the first exception end the loop.
InvokeEachUntilRaise(callbacks, topic, payload, raising) ==
    IF callbacks = <<>> THEN <<>>
    ELSE <<[callback |-> Head(callbacks), topic |-> topic, payload |-> payload]>>
         \o (IF Head(callbacks).owner \in raising THEN <<>>
             ELSE InvokeEachUntilRaise(Tail(callbacks), topic, payload, raising))

RECURSIVE InvokeEach(_, _, _, _)
\* The loop "for callback in callbacks_to_call: try: callback(topic, payload)
\* except Exception: pass": the callbacks in `raising` raise, which is swallowed.
InvokeEach(callbacks, topic, payload, raising) ==
    IF callbacks = <<>> THEN <<>>
    ELSE <<[callback |-> Head(callbacks), topic |-> topic, payload |-> payload]>>
         \o InvokeEach(Tail(callbacks), topic, payload, raising)

\* MQTTClient._on_message for a message (topic, raw payload); `order` is the
\* iteration order of the matching patterns.
OnMessage(st, topic, raw, raising, order) ==
    [st EXCEPT !.invocations =
        InvokeEach(CollectCallbacks(st.message_callbacks, order), topic,
                   DecodePayload(raw), raising)]

\* connect() variant that reports success whenever the transport did not raise.
MqttConnectOptimistic(st, outcome, topics) ==
    LET created == [st EXCEPT !.client = TRUE]
        r == CASE outcome = "raise" ->
                    [created EXCEPT !.connected = FALSE, !.loop_running = FALSE,
                                    !.pending_ack = FALSE]
               [] outcome = "ack" ->
                    OnConnect([created EXCEPT !.loop_running = TRUE, !.pending_ack = FALSE],
                              TRUE, topics)
               [] outcome = "refused" ->
                    OnConnect([created EXCEPT !.loop_running = TRUE, !.pending_ack = FALSE],
                              FALSE, topics)
               [] OTHER ->
                    [created EXCEPT !.loop_running = TRUE, !.pending_ack = TRUE]
    IN  [r EXCEPT !.ret = (outcome # "raise"),
                  !.api_state = IF outcome # "raise" THEN "connect_ok" ELSE "connect_failed"]

\* MQTTClient.connect().  outcome: self._client.connect() raises ("raise"); the
\* network loop is started and, before the timeout, _on_connect runs with a
\* success ("ack") or a failure ("refused") reason code, or no acknowledgement
\* arrives ("timeout").  After a raise the new client has no network loop.
MqttConnect(st, outcome, topics) ==
    LET created == [st EXCEPT !.client = TRUE]
        r == CASE outcome = "raise" ->
                    [created EXCEPT !.connected = FALSE, !.loop_running = FALSE,
                                    !.pending_ack = FALSE]
               [] outcome = "ack" ->
                    OnConnect([created EXCEPT !.loop_running = TRUE, !.pending_ack = FALSE],
                              TRUE, topics)
               [] outcome = "refused" ->
                    OnConnect([created EXCEPT !.loop_running = TRUE, !.pending_ack = FALSE],
                              FALSE, topics)
               [] OTHER ->
                    [created EXCEPT !.loop_running = TRUE, !.pending_ack = TRUE]
    IN  [r EXCEPT !.ret = r.connected,
                  !.api_state = IF r.connected THEN "connect_ok" ELSE "connect_failed"]

\* MQTTClient.disconnect(): the stop event is set and never cleared, the
\* reconnect thread is joined, the loop is stopped and the client dropped.
MqttDisconnect(st) ==
    [st EXCEPT !.stop_reconnect = TRUE, !.reconnect_thread = FALSE,
               !.loop_running = FALSE, !.pending_ack = FALSE,
               !.client = FALSE, !.connected = FALSE,
               !.api_state = "disconnected"]

\* MQTTClient._start_reconnect
StartReconnect(st) ==
    IF st.reconnect_thread THEN st ELSE [st EXCEPT !.reconnect_thread = TRUE]

\* MQTTClient._on_disconnect; the broker side of the session is gone.
OnDisconnect(st) ==
    LET flagged == [st EXCEPT !.connected = FALSE]
    IN  IF ~flagged.stop_reconnect THEN StartReconnect(flagged) ELSE flagged

-----------------------------------------------------------------------------
(* SubscriptionManager *)

\* First-block variant that records the pair in the per-pattern index only.
SubAddTopicIndexOnly(st, client_id, topic) ==
    Snap([st EXCEPT
             !.topic_clients = DictSet(@, topic, DictGet(@, topic, {}) \cup {client_id})])

\* subscribe_client, first locked block (lines 88-94): both indices gain the pair.
SubAdd(st, client_id, topic) ==
    Snap([st EXCEPT
             !.topic_clients = DictSet(@, topic, DictGet(@, topic, {}) \cup {client_id}),
             !.client_subscriptions =
                 DictSet(@, client_id, DictGet(@, client_id, {}) \cup {topic})])

\* Rollback variant that forgets the per-session index.
SubRollbackTopicIndexOnly(st, client_id, topic) ==
    LET tc1 == DictSet(st.topic_clients, topic,
                       DictGet(st.topic_clients, topic, {}) \ {client_id})
        tc2 == IF tc1[topic] = {} THEN DictDel(tc1, topic) ELSE tc1
    IN  Snap([st EXCEPT !.topic_clients = tc2])

\* subscribe_client, rollback block (lines 100-106); both dicts are defaultdicts,
\* so indexing a missing key creates it with an empty set first.
SubRollback(st, client_id, topic) ==
    LET tc1 == DictSet(st.topic_clients, topic,
                       DictGet(st.topic_clients, topic, {}) \ {client_id})
        cs1 == DictSet(st.client_subscriptions, client_id,
                       DictGet(st.client_subscriptions, client_id, {}) \ {topic})
        tc2 == IF tc1[topic] = {} THEN DictDel(tc1, topic) ELSE tc1
        cs2 == IF cs1[client_id] = {} THEN DictDel(cs1, client_id) ELSE cs1
    IN  Snap([st EXCEPT !.topic_clients = tc2, !.client_subscriptions = cs2])

\* _subscribe_to_mqtt_topic(topic); MQTTClient.subscribe does not raise, so the
\* except branch returns what the False branch returns.
SubscribeToMqttTopic(st, topic, rc) ==
    LET r == MqttSubscribe(st, topic, MuxCallback(topic), rc)
    IN  IF r.ret
        THEN [r EXCEPT !.mqtt_subscriptions = DictSet(@, topic, MuxCallback(topic))]
        ELSE r

\* _unsubscribe_from_mqtt_topic(topic)
UnsubscribeFromMqttTopic(st, topic, rc) ==
    LET r == MqttUnsubscribe(st, topic, rc)
    IN  IF r.ret
        THEN [r EXCEPT !.mqtt_subscriptions = DictDel(@, topic)]
        ELSE r

\* The test "is_new_topic" of subscribe_client (line 90).
IsNewTopic(tc, topic) == topic \notin DOMAIN tc \/ tc[topic] = {}

\* is_new_topic variant that is also true when the caller is not yet registered.
IsNewTopicPerSession(tc, client_id, topic) ==
    topic \notin DOMAIN tc \/ client_id \notin tc[topic]

\* subscribe_client variant that subscribes at the broker for every new session.
SubscribeClientEachSession(st, client_id, topic, rc) ==
    IF ~st.connected
    THEN [st EXCEPT !.ret = FALSE]
    ELSE LET is_new_topic == IsNewTopicPerSession(st.topic_clients, client_id, topic)
             added == SubAdd(st, client_id, topic)
         IN  IF is_new_topic
             THEN LET r == SubscribeToMqttTopic(added, topic, rc)
                  IN  IF ~r.ret
                      THEN [SubRollback(r, client_id, topic) EXCEPT !.ret = FALSE]
                      ELSE [r EXCEPT !.ret = TRUE]
             ELSE [added EXCEPT !.ret = TRUE]

\* subscribe_client(client_id, topic)
SubscribeClient(st, client_id, topic, rc) ==
    IF ~st.connected
    THEN [st EXCEPT !.ret = FALSE]
    ELSE LET is_new_topic == IsNewTopic(st.topic_clients, topic)
             added == SubAdd(st, client_id, topic)
         IN  IF is_new_topic
             THEN LET r == SubscribeToMqttTopic(added, topic, rc)
                  IN  IF ~r.ret
                      THEN [SubRollback(r, client_id, topic) EXCEPT !.ret = FALSE]
                      ELSE [r EXCEPT !.ret = TRUE]
             ELSE [added EXCEPT !.ret = TRUE]

\* unsubscribe_client variant that unsubscribes at the broker whenever the
\* pattern is known, whether or not sessions remain.
UnsubscribeClientAlways(st, client_id, topic, rc) ==
    LET tc == st.topic_clients
        cs == st.client_subscriptions
        in_topic == topic \in DOMAIN tc
        tc1 == IF in_topic THEN DictSet(tc, topic, tc[topic] \ {client_id}) ELSE tc
        tc2 == IF in_topic /\ tc1[topic] = {} THEN DictDel(tc1, topic) ELSE tc1
        cs1 == IF client_id \in DOMAIN cs
               THEN DictSet(cs, client_id, cs[client_id] \ {topic}) ELSE cs
        cs2 == IF client_id \in DOMAIN cs /\ cs1[client_id] = {}
               THEN DictDel(cs1, client_id) ELSE cs1
        locked == Snap([st EXCEPT !.topic_clients = tc2, !.client_subscriptions = cs2])
        after == IF in_topic THEN UnsubscribeFromMqttTopic(locked, topic, rc) ELSE locked
    IN  [after EXCEPT !.ret = TRUE]

\* unsubscribe_client(client_id, topic)
UnsubscribeClient(st, client_id, topic, rc) ==
    LET tc == st.topic_clients
        cs == st.client_subscriptions
        in_topic == topic \in DOMAIN tc
        tc1 == IF in_topic THEN DictSet(tc, topic, tc[topic] \ {client_id}) ELSE tc
        should_unsubscribe_mqtt == in_topic /\ tc1[topic] = {}
        tc2 == IF should_unsubscribe_mqtt THEN DictDel(tc1, topic) ELSE tc1
        cs1 == IF client_id \in DOMAIN cs
               THEN DictSet(cs, client_id, cs[client_id] \ {topic}) ELSE cs
        cs2 == IF client_id \in DOMAIN cs /\ cs1[client_id] = {}
               THEN DictDel(cs1, client_id) ELSE cs1
        locked == Snap([st EXCEPT !.topic_clients = tc2, !.client_subscriptions = cs2])
        after == IF should_unsubscribe_mqtt
                 THEN UnsubscribeFromMqttTopic(locked, topic, rc)
                 ELSE locked
    IN  [after EXCEPT !.ret = TRUE]

RECURSIVE UnsubscribeEach(_, _, _, _)
\* The loop "for topic in topics: self.unsubscribe_client(client_id, topic)";
\* rcs[topic] is the outcome of the network call made for topic, if one is made.
UnsubscribeEach(st, client_id, topics, rcs) ==
    IF topics = <<>> THEN st
    ELSE UnsubscribeEach(UnsubscribeClient(st, client_id, Head(topics), rcs[Head(topics)]),
                         client_id, Tail(topics), rcs)

\* unsubscribe_client_all variant that stops after the first pattern.
UnsubscribeClientAllFirstOnly(st, client_id, topics, rcs) ==
    [UnsubscribeEach(Snap(st), client_id,
                     IF topics = <<>> THEN <<>> ELSE <<Head(topics)>>, rcs)
        EXCEPT !.ret = TRUE]

\* unsubscribe_client_all(client_id); topics is
\* list(self._client_subscriptions.get(client_id, set())).
UnsubscribeClientAll(st, client_id, topics, rcs) ==
    [UnsubscribeEach(Snap(st), client_id, topics, rcs) EXCEPT !.ret = TRUE]

\* _on_message variant that calls the callbacks of every registered pattern.
CallbacksToCallUnmatched(mc, topic) ==
    UNION {{p} \X (1..Len(mc[p])) : p \in DOMAIN mc}

\* Positions (pattern, index) of the callbacks MQTTClient._on_message collects
\* into callbacks_to_call for a message on `topic` (lines 247-251).
CallbacksToCall(mc, topic) ==
    {pos \in UNION {{p} \X (1..Len(mc[p])) : p \in DOMAIN mc} :
        TopicMatches(pos[1], topic)}

\* How often the dispatch of one message on `topic` invokes the forwarding
\* callback with (client_id, topic, payload, timestamp, subscription_topic):
\* every collected multiplexer callback runs _on_mqtt_message(subscription_topic,
\* topic, payload), which forwards to each client of subscription_topic when a
\* forwarding callback is set (lines 278-297).
ForwardCount(mc, tc, callback_set, topic, client_id, subscription_topic) ==
    IF callback_set /\ client_id \in DictGet(tc, subscription_topic, {})
    THEN Cardinality({pos \in CallbacksToCall(mc, topic) :
                         mc[pos[1]][pos[2]] = MuxCallback(subscription_topic)})
    ELSE 0

-----------------------------------------------------------------------------
(* Initial state and actions *)

Op(op, client_id, topic, payload, ret) ==
    [op |-> op, client |-> client_id, topic |-> topic, payload |-> payload, ret |-> ret]

NoForwards == [x \in Sessions \X Patterns |-> 0]

\* The state a handler leaves behind.
CommitCore(st, op) ==
    /\ client' = st.client
    /\ connected' = st.connected
    /\ stop_reconnect' = st.stop_reconnect
    /\ reconnect_thread' = st.reconnect_thread
    /\ loop_running' = st.loop_running
    /\ pending_ack' = st.pending_ack
    /\ api_state' = st.api_state
    /\ message_callbacks' = st.message_callbacks
    /\ topic_clients' = st.topic_clients
    /\ client_subscriptions' = st.client_subscriptions
    /\ mqtt_subscriptions' = st.mqtt_subscriptions
    /\ calls' = st.calls
    /\ steps' = st.steps
    /\ invocations' = st.invocations
    /\ lastOp' = op

\* The state a handler of the broker connection or the multiplexer leaves behind.
Commit(st, op) ==
    /\ CommitCore(st, op)
    /\ UNCHANGED <<sysVars, matchVars, bridgeVars, trackerVars, restVars>>

(* SysMonitor: the Metrics Cache *)

\* Optional[...] values: None and a present value.
None == <<>>

Some(v) == <<v>>

\* TOPIC_MAPPINGS restricted to the topics fed: topic -> (attribute, type).
TOPIC_MAPPINGS ==
    [t \in SysTopics \ {"$SYS/broker/unknown"} |->
        CASE t = "$SYS/broker/version" -> <<"version", "str">>
          [] t = "$SYS/broker/uptime" -> <<"uptime", "int">>
          [] t = "$SYS/broker/clients/connected" -> <<"clients_connected", "int">>
          [] OTHER -> <<"load_messages_received_1min", "float">>]

\* BrokerStats(): every metric None, last_updated the time of construction.
BrokerStats(t) ==
    [version |-> None, uptime |-> None, clients_connected |-> None,
     load_messages_received_1min |-> None, last_updated |-> t]

Digits == {"0", "1", "2", "3", "4", "5", "6", "7", "8", "9"}

DigitValue(c) ==
    CHOOSE n \in 0..9 : <<"0", "1", "2", "3", "4", "5", "6", "7", "8", "9">>[n + 1] = c

RECURSIVE StripLeft(_)
StripLeft(str) ==
    IF str # <<>> /\ Head(str) = " " THEN StripLeft(Tail(str)) ELSE str

RECURSIVE StripRight(_)
StripRight(str) ==
    IF str # <<>> /\ str[Len(str)] = " "
    THEN StripRight(SubSeq(str, 1, Len(str) - 1)) ELSE str

\* int() and float() ignore surrounding whitespace and read an optional sign.
Strip(str) == StripRight(StripLeft(str))

Unsigned(str) == IF str # <<>> /\ Head(str) \in {"+", "-"} THEN Tail(str) ELSE str

Sign(str) == IF str # <<>> /\ Head(str) = "-" THEN -1 ELSE 1

RECURSIVE DigitsValue(_)
DigitsValue(ds) ==
    IF ds = <<>> THEN 0
    ELSE DigitsValue(SubSeq(ds, 1, Len(ds) - 1)) * 10 + DigitValue(ds[Len(ds)])

\* int(payload) does not raise ValueError: an optionally signed, non-empty
\* run of decimal digits.
IsInt(payload) ==
    LET u == Unsigned(Strip(payload))
    IN  u # <<>> /\ \A i \in 1..Len(u) : u[i] \in Digits

IntOf(payload) == Sign(Strip(payload)) * DigitsValue(Unsigned(Strip(payload)))

\* float(payload) does not raise ValueError: optionally signed digits with at
\* most one decimal point and at least one digit (the payloads hold no
\* exponent, "inf" or "nan").
IsFloat(payload) ==
    LET u == Unsigned(Strip(payload))
    IN  /\ \A i \in 1..Len(u) : u[i] \in Digits \cup {"."}
        /\ Cardinality({i \in 1..Len(u) : u[i] = "."}) <= 1
        /\ \E i \in 1..Len(u) : u[i] \in Digits

RECURSIVE Normalize(_, _)
\* The number mant * 10^exp with exp <= 0, trailing zeros of the fraction dropped.
Normalize(mant, exp) ==
    IF exp < 0 /\ mant % 10 = 0 THEN Normalize(mant \div 10, exp + 1)
    ELSE [mant |-> mant, exp |-> exp]

FloatOf(payload) ==
    LET u == Unsigned(Strip(payload))
        dots == {i \in 1..Len(u) : u[i] = "."}
        ds == SelectSeq(u, LAMBDA c : c # ".")
        frac == IF dots = {} THEN 0 ELSE Len(u) - (CHOOSE i \in dots : TRUE)
    IN  Normalize(Sign(Strip(payload)) * DigitsValue(ds), 0 - frac)

\* Parser that turns a payload it cannot convert into 0 instead of raising.
ParseValueDefaultZero(value_type, payload) ==
    CASE value_type = "int" ->
            [ok |-> TRUE, value |-> IF IsInt(payload) THEN IntOf(payload) ELSE 0]
      [] value_type = "float" ->
            [ok |-> TRUE,
             value |-> IF IsFloat(payload) THEN FloatOf(payload) ELSE [mant |-> 0, exp |-> 0]]
      [] OTHER -> [ok |-> TRUE, value |-> payload]

\* "value = int(payload) / float(payload) / str(payload)": ok is FALSE when
\* the conversion raises ValueError.
ParseValue(value_type, payload) ==
    CASE value_type = "int" ->
            [ok |-> IsInt(payload), value |-> IF IsInt(payload) THEN IntOf(payload) ELSE 0]
      [] value_type = "float" ->
            [ok |-> IsFloat(payload), value |-> IF IsFloat(payload) THEN FloatOf(payload) ELSE 0]
      [] OTHER -> [ok |-> TRUE, value |-> payload]

\* Field write that leaves the timestamp alone.
WriteFieldOnly(record, attr_name, value, t) == [record EXCEPT ![attr_name] = Some(value)]

\* setattr(self._stats, attr_name, value); self._stats.last_updated = now
WriteField(record, attr_name, value, t) ==
    [record EXCEPT ![attr_name] = Some(value), !.last_updated = t]

\* The state of the SysMonitor a handler works on.
SysSt ==
    [stats |-> stats, sys_lock |-> sys_lock, sys_pc |-> sys_pc,
     update_callbacks |-> update_callbacks, notified |-> <<>>, outcome |-> "-"]

\* get_stats() that hands out the live record itself.
GetStatsLive(st) ==
    [blocked |-> st.sys_lock, alias |-> TRUE, snapshot |-> st.stats]

\* SysMonitor.get_stats(): "with self._lock" blocks as long as the lock is
\* held, by whichever thread; then a new BrokerStats object is built from the
\* record field by field (alias is TRUE when the object returned is the live
\* record itself).  Every field value is an immutable int, float, str or
\* datetime.
GetStats(st) ==
    [blocked |-> st.sys_lock, alias |-> FALSE,
     snapshot |-> [f \in DOMAIN st.stats |-> st.stats[f]]]

RECURSIVE NotifyEach(_, _)
\* "for callback in callbacks: callback(current_stats)", exceptions logged.
NotifyEach(callbacks, current_stats) ==
    IF callbacks = <<>> THEN <<>>
    ELSE <<[callback |-> Head(callbacks), snapshot |-> current_stats]>>
         \o NotifyEach(Tail(callbacks), current_stats)

\* SysMonitor._on_sys_message(topic, payload) at clock reading t.  The write
\* happens under self._lock; get_stats() is then called with the lock still
\* held, and the handler goes on only if that call gets the lock.
OnSysMessage(st, topic, payload, t) ==
    IF topic \notin DOMAIN TOPIC_MAPPINGS
    THEN [st EXCEPT !.outcome = "unmapped"]
    ELSE LET attr_name == TOPIC_MAPPINGS[topic][1]
             parsed == ParseValue(TOPIC_MAPPINGS[topic][2], payload)
         IN  IF ~parsed.ok
             THEN [st EXCEPT !.outcome = "malformed"]
             ELSE LET locked == [st EXCEPT
                                    !.sys_lock = TRUE,
                                    !.stats = WriteField(@, attr_name, parsed.value, t),
                                    !.outcome = "written"]
                      callbacks == locked.update_callbacks
                      current_stats == GetStats(locked)
                  IN  IF current_stats.blocked
                      THEN [locked EXCEPT !.sys_pc = "blocked"]
                      ELSE [locked EXCEPT
                               !.sys_lock = FALSE,
                               !.notified = NotifyEach(callbacks, current_stats.snapshot)]

SysOp(op, topic, payload, outcome, snapshot) ==
    [op |-> op, topic |-> topic, payload |-> payload, outcome |-> outcome,
     snapshot |-> snapshot]

\* SysMonitor.__init__
InitSys ==
    /\ stats = BrokerStats(0)
    /\ sys_lock = FALSE
    /\ sys_pc = "idle"
    /\ update_callbacks = <<>>
    /\ now = 0
    /\ notified = <<>>
    /\ held = None
    /\ sys_last = SysOp("init", "", <<>>, "-", None)

\* No matcher call under way.
InitMatcher ==
    /\ m_pattern = <<>>
    /\ m_topic = <<>>
    /\ m_done = FALSE
    /\ m_result = FALSE

\* MQTTClient.__init__ and SubscriptionManager.__init__
InitMqtt ==
    /\ client = FALSE
    /\ connected = FALSE
    /\ stop_reconnect = FALSE
    /\ reconnect_thread = FALSE
    /\ loop_running = FALSE
    /\ pending_ack = FALSE
    /\ api_state = "new"
    /\ message_callbacks = EmptyDict
    /\ topic_clients = EmptyDict
    /\ client_subscriptions = EmptyDict
    /\ mqtt_subscriptions = EmptyDict
    /\ message_callback = FALSE
    /\ lastOp = Op("init", NoSession, NoTopic, NoPayload, FALSE)
    /\ calls = <<>>
    /\ steps = <<>>
    /\ forwards = NoForwards
    /\ invocations = <<>>

(* MQTTBridge: the snapshot and its periodic publication *)

RECURSIVE TakeToken(_)
TakeToken(str) ==
    IF str = <<>> \/ Head(str) = " " THEN <<>>
    ELSE <<Head(str)>> \o TakeToken(Tail(str))

\* value.split()[0]; split() of a blank string is empty and [0] raises IndexError.
HasToken(payload) == StripLeft(payload) # <<>>

FirstToken(payload) == TakeToken(StripLeft(payload))

\* topic_map of _update_stats_from_sys restricted to the topics fed.
BridgeTopicMap ==
    [t \in BridgeSysTopics \ {"$SYS/broker/unknown"} |->
        IF t = "$SYS/broker/uptime" THEN <<"uptime", "parse_int">>
        ELSE <<"clients_connected", "int">>]

\* converter(payload): ok is FALSE when it raises ValueError or IndexError.
Convert(converter, payload) ==
    IF converter = "parse_int"
    THEN IF HasToken(payload) THEN ParseValue("int", FirstToken(payload))
         ELSE [ok |-> FALSE, value |-> 0]
    ELSE ParseValue("int", payload)

\* MQTTBridge._update_stats_from_sys(topic, payload)
UpdateStatsFromSys(record, topic, payload) ==
    IF topic \in DOMAIN BridgeTopicMap
    THEN LET attr_name == BridgeTopicMap[topic][1]
             converted == Convert(BridgeTopicMap[topic][2], payload)
         IN  IF converted.ok THEN [record EXCEPT ![attr_name] = Some(converted.value)]
             ELSE record
    ELSE record

\* BrokerStats.to_dict(), for the fields of the model.
ToDict(record) ==
    [broker |-> [version |-> record.version, uptime |-> record.uptime],
     clients |-> [connected |-> record.clients_connected],
     load |-> [messages_received |-> [1min |-> record.load_messages_received_1min]],
     last_updated |-> record.last_updated]

\* A message on a channel of the external bus.
BusMessage(channel, type, data) == [channel |-> channel, type |-> type, data |-> data]

\* The part of the Bridge _handle_sys_message works on.
BridgeStatsSt == [stats |-> b_stats, last_publish |-> b_last_publish, bus |-> <<>>]

\* _handle_sys_message that publishes on every metric message.
HandleSysMessageEvery(st, topic, payload, t, redis_ok) ==
    LET updated == [st EXCEPT !.stats = UpdateStatsFromSys(@, topic, payload)]
    IN  IF redis_ok
        THEN [updated EXCEPT
                 !.bus = Append(@, BusMessage("mqtt:broker:stats", "stats_update",
                                              ToDict(updated.stats))),
                 !.last_publish = t]
        ELSE updated

\* MQTTBridge._handle_sys_message(topic, payload) at clock reading t;
\* redis_ok is FALSE when redis_client.publish raises, which leaves
\* _last_stats_publish as it was.
HandleSysMessage(st, topic, payload, t, redis_ok) ==
    LET updated == [st EXCEPT !.stats = UpdateStatsFromSys(@, topic, payload)]
    IN  IF t - updated.last_publish >= StatsPublishInterval
        THEN IF redis_ok
             THEN [updated EXCEPT
                      !.bus = Append(@, BusMessage("mqtt:broker:stats", "stats_update",
                                                   ToDict(updated.stats))),
                      !.last_publish = t]
             ELSE updated
        ELSE updated

BridgeOp(op, command) == [op |-> op, command |-> command]

(* MQTTBridge: start, commands, forwarding, stop *)

\* dict.get(key, default)
GetOr(field, default) == IF field = None THEN default ELSE field[1]

\* The subscription start() makes for the metric topics.
SysPattern == <<"$SYS", "#">>

\* The bound method self._handle_sys_message.
SysCallback == [owner |-> "sys", topic |-> NoTopic]

\* The closure callback(t, p) created by a subscribe command for `topic`.
BridgeCallback(topic) == [owner |-> "bridge", topic |-> topic]

\* The Bridge and its broker connection.
BridgeSt ==
    St @@ [phase |-> b_phase, topic_callbacks |-> b_topic_callbacks,
           bus |-> <<>>, attempts |-> <<>>, raised |-> FALSE]

\* The keys of _topic_callbacks without `topic`, in insertion order.
Untrack(tracked, topic) == SelectSeq(tracked, LAMBDA t : t # topic)

Tracked(tracked, topic) == \E i \in 1..Len(tracked) : tracked[i] = topic

\* MQTTClient.publish(topic, payload, qos, retain); rc is the outcome of
\* self._client.publish.
MqttPublish(st, topic, payload, qos, retain, rc) ==
    LET called == [st EXCEPT !.calls =
                      Append(@, [layer |-> "mqtt", op |-> "publish", topic |-> topic,
                                 rc |-> "-", payload |-> payload, qos |-> qos,
                                 retain |-> retain])]
    IN  IF ~called.connected \/ ~called.client
        THEN [called EXCEPT !.ret = FALSE]
        ELSE [called EXCEPT !.calls = Append(@, Call("net", "publish", topic, rc)),
                            !.ret = (rc = "ok")]

\* MQTTBridge._publish_status(connected); redis_ok is FALSE when
\* redis_client.publish raises.
PublishStatus(st, flag, t, redis_ok) ==
    IF redis_ok
    THEN [st EXCEPT !.bus = Append(@, BusMessage("mqtt:broker:status", "status_change",
                                                 [connected |-> flag, timestamp |-> t])),
                    !.raised = FALSE]
    ELSE [st EXCEPT !.raised = TRUE]

\* MQTTBridge._forward_mqtt_message(topic, payload)
ForwardMqttMessage(bus_, topic, payload, t, redis_ok) ==
    IF redis_ok
    THEN Append(bus_, BusMessage("mqtt:messages", "message_received",
                                 [topic |-> topic, payload |-> payload, timestamp |-> t]))
    ELSE bus_

\* MQTTBridge.start(); redis is "ok", or names the redis call that raises, or
\* is "subscribe_blocks": the bus client's subscribe never returns, which is
\* what RedisClient.subscribe does on its first subscription.  The broker
\* connection is then up and start() has not returned.
Start(st, outcome, rc, redis, t) ==
    LET conn == MqttConnect(st, outcome, <<>>)
    IN  IF ~conn.ret
        THEN [conn EXCEPT !.phase = "failed", !.ret = FALSE]
        ELSE LET sub == MqttSubscribe(conn, SysPattern, SysCallback, rc)
             IN  IF redis = "subscribe_raises"
                 THEN [sub EXCEPT !.phase = "failed", !.raised = TRUE, !.ret = FALSE]
                 ELSE IF redis = "subscribe_blocks"
                 THEN [sub EXCEPT !.phase = "blocked", !.ret = FALSE]
                 ELSE LET pub == PublishStatus(sub, TRUE, t, redis = "ok")
                      IN  IF pub.raised
                          THEN [pub EXCEPT !.phase = "failed", !.ret = FALSE]
                          ELSE [pub EXCEPT !.phase = "running", !.ret = TRUE]

\* The publish branch without the QoS validation.
CmdPublishAnyQos(st, command, rc) ==
    LET topic == GetOr(command.topic, EmptyTopic)
    IN  IF topic = EmptyTopic THEN st
        ELSE MqttPublish(st, topic, GetOr(command.payload, ""), GetOr(command.qos, 0),
                         GetOr(command.retain, FALSE), rc)

\* _handle_command, branch CMD_PUBLISH
CmdPublish(st, command, rc) ==
    LET topic == GetOr(command.topic, EmptyTopic)
        qos == GetOr(command.qos, 0)
    IN  IF topic = EmptyTopic THEN st
        ELSE IF qos \notin {0, 1, 2} THEN st
        ELSE MqttPublish(st, topic, GetOr(command.payload, ""), qos,
                         GetOr(command.retain, FALSE), rc)

\* The subscribe branch without the look-up in _topic_callbacks.
CmdSubscribeAgain(st, command, rc) ==
    LET topic == GetOr(command.topic, EmptyTopic)
    IN  MqttSubscribe([st EXCEPT !.topic_callbacks = Append(Untrack(@, topic), topic)],
                      topic, BridgeCallback(topic), rc)

\* _handle_command, branch CMD_SUBSCRIBE; the result of subscribe is ignored.
CmdSubscribe(st, command, rc) ==
    LET topic == GetOr(command.topic, EmptyTopic)
    IN  IF Tracked(st.topic_callbacks, topic) THEN st
        ELSE MqttSubscribe([st EXCEPT !.topic_callbacks = Append(@, topic)],
                           topic, BridgeCallback(topic), rc)

\* _handle_command, branch CMD_UNSUBSCRIBE
CmdUnsubscribe(st, command, rc) ==
    LET topic == GetOr(command.topic, EmptyTopic)
    IN  IF topic = EmptyTopic THEN st
        ELSE MqttUnsubscribe([st EXCEPT !.topic_callbacks = Untrack(@, topic)], topic, rc)

\* MQTTBridge._handle_command(command)
HandleCommand(st, command, rc) ==
    CASE command.type = "cmd_publish" -> CmdPublish(st, command, rc)
      [] command.type = "cmd_subscribe" -> CmdSubscribe(st, command, rc)
      [] command.type = "cmd_unsubscribe" -> CmdUnsubscribe(st, command, rc)
      [] OTHER -> st

RECURSIVE ForwardEach(_, _, _, _)
\* What the invoked callbacks do: each closure of the Bridge forwards the
\* message to the bus.
ForwardEach(bus_, invoked, t, redis_ok) ==
    IF invoked = <<>> THEN bus_
    ELSE ForwardEach(IF Head(invoked).callback.owner = "bridge"
                     THEN ForwardMqttMessage(bus_, Head(invoked).topic,
                                             Head(invoked).payload, t, redis_ok)
                     ELSE bus_,
                     Tail(invoked), t, redis_ok)

\* MQTTClient._on_message on the Bridge's connection.
BridgeOnMessage(st, topic, raw, redis_ok, order, t) ==
    LET called == OnMessage(st, topic, raw, IF redis_ok THEN {} ELSE {"bridge"}, order)
    IN  [called EXCEPT !.bus = ForwardEach(@, called.invocations, t, redis_ok)]

\* MQTTClient.disconnect() where loop_stop() or the client's disconnect() may
\* raise: the stop event is set and the thread joined before either call, and
\* _client and _connected are assigned after both.
MqttDisconnectOutcome(st, outcome) ==
    CASE outcome = "ok" -> [MqttDisconnect(st) EXCEPT !.raised = FALSE]
      [] outcome = "loop_stop_raises" ->
            [st EXCEPT !.stop_reconnect = TRUE, !.reconnect_thread = FALSE,
                       !.raised = st.client]
      [] OTHER ->
            [st EXCEPT !.stop_reconnect = TRUE, !.reconnect_thread = FALSE,
                       !.loop_running = IF st.client THEN FALSE ELSE @,
                       !.raised = st.client]

Attempt(step, topic, ok) == [step |-> step, topic |-> topic, ok |-> ok]

RECURSIVE StopUnsubscribeEach(_, _, _)
\* The loop over list(self._topic_callbacks.keys()) of stop(); the
\* unsubscribe of the topics in `failing` fails in the network call.
StopUnsubscribeEach(st, topics, failing) ==
    IF topics = <<>> THEN st
    ELSE LET un == MqttUnsubscribe(st, Head(topics),
                                   IF Head(topics) \in failing THEN "raise" ELSE "ok")
         IN  StopUnsubscribeEach([un EXCEPT !.attempts =
                                  Append(@, Attempt("unsubscribe", Head(topics), un.ret))],
                             Tail(topics), failing)

\* stop() in which the first failing step ends the shutdown.
StopAtFirstFailure(st, redis_ok, failing, mqtt_outcome, redis_closes, t) ==
    LET status == PublishStatus(st, FALSE, t, redis_ok)
        s1 == [status EXCEPT !.attempts = Append(@, Attempt("publish_status", NoTopic, ~status.raised))]
    IN  IF status.raised THEN [s1 EXCEPT !.phase = "stopped", !.raised = FALSE]
        ELSE LET s2 == StopUnsubscribeEach(s1, s1.topic_callbacks, failing)
                 disc == MqttDisconnectOutcome(s2, mqtt_outcome)
                 s3 == [disc EXCEPT !.attempts = Append(@, Attempt("mqtt_disconnect", NoTopic, ~disc.raised))]
             IN  IF disc.raised THEN [s3 EXCEPT !.phase = "stopped", !.raised = FALSE]
                 ELSE [s3 EXCEPT !.attempts = Append(@, Attempt("redis_disconnect", NoTopic, redis_closes)),
                                 !.phase = "stopped", !.raised = FALSE]

\* MQTTBridge.stop(): four steps, each in its own try block.  redis_ok: the
\* status publish does not raise; mqtt_outcome: see MqttDisconnectOutcome;
\* redis_closes: redis_client.disconnect() does not raise.
Stop(st, redis_ok, failing, mqtt_outcome, redis_closes, t) ==
    LET status == PublishStatus(st, FALSE, t, redis_ok)
        s1 == [status EXCEPT !.attempts = Append(@, Attempt("publish_status", NoTopic, ~status.raised))]
        s2 == StopUnsubscribeEach(s1, s1.topic_callbacks, failing)
        disc == MqttDisconnectOutcome(s2, mqtt_outcome)
        s3 == [disc EXCEPT !.attempts = Append(@, Attempt("mqtt_disconnect", NoTopic, ~disc.raised))]
    IN  [s3 EXCEPT !.attempts = Append(@, Attempt("redis_disconnect", NoTopic, redis_closes)),
                   !.phase = "stopped", !.raised = FALSE]

\* MQTTBridge.__init__; time.time() is far beyond the publish interval.
InitBridge ==
    /\ b_phase = "new"
    /\ b_now = StatsPublishInterval
    /\ b_stats = BrokerStats(StatsPublishInterval)
    /\ b_last_publish = 0
    /\ b_topic_callbacks = <<>>
    /\ b_published = None
    /\ b_pub_time = None
    /\ b_status = None
    /\ b_unsub_seen = FALSE
    /\ bus = <<>>
    /\ attempts = <<>>
    /\ b_last = BridgeOp("init", None)

(* TopicTracker *)

\* topic.startswith("$SYS/")
StartsWithSys(topic) == Len(topic) >= 2 /\ Head(topic) = "$SYS"

\* payload[:max_payload_size] + "..." when the payload is longer than that.
Truncate(payload, max_payload_size) ==
    IF Len(payload) > max_payload_size
    THEN SubSeq(payload, 1, max_payload_size) \o <<".", ".", ".">>
    ELSE payload

\* TopicInfo(topic, message_count=1, last_payload=payload) created at time t.
TopicInfo(topic, payload, t) ==
    [topic |-> topic, message_count |-> 1, last_payload |-> payload,
     first_seen |-> t, last_seen |-> t]

\* update_message that leaves the count as it is.
UpdateMessageKeepCount(topic_info, payload, t) ==
    [topic_info EXCEPT !.last_seen = t, !.last_payload = payload]

\* TopicInfo.update_message(payload=payload) at time t.
UpdateMessage(topic_info, payload, t) ==
    [topic_info EXCEPT !.message_count = @ + 1, !.last_seen = t, !.last_payload = payload]

\* Position of the record of `topic` in the dict, 0 when it has none.
IndexOf(topics, topic) ==
    IF \E i \in 1..Len(topics) : topics[i].topic = topic
    THEN CHOOSE i \in 1..Len(topics) : topics[i].topic = topic
    ELSE 0

\* TopicTracker._on_topic_message(topic, payload) at time t, on the dict
\* _topics (records in insertion order).  The registered callbacks are then
\* called with the record, outside the lock, and what they raise is swallowed.
OnTopicMessage(topics, topic, payload, t) ==
    IF StartsWithSys(topic) THEN topics
    ELSE LET truncated_payload == Truncate(payload, MaxPayloadSize)
             i == IndexOf(topics, topic)
         IN  IF i > 0
             THEN [topics EXCEPT ![i] = UpdateMessage(@, truncated_payload, t)]
             ELSE Append(topics, TopicInfo(topic, truncated_payload, t))

\* _prune_inactive_topics that removes nothing.
PruneInactiveTopicsNever(topics, inactive_timeout, t) == topics

\* TopicTracker._prune_inactive_topics() at time t.
PruneInactiveTopics(topics, inactive_timeout, t) ==
    IF inactive_timeout <= 0 THEN topics
    ELSE SelectSeq(topics, LAMBDA topic_info : ~(topic_info.last_seen < t - inactive_timeout))

RECURSIVE InsertByLastSeen(_, _)
\* Insertion of `topic_info` behind every record that is not older than it.
InsertByLastSeen(sorted, topic_info) ==
    IF sorted = <<>> THEN <<topic_info>>
    ELSE IF Head(sorted).last_seen >= topic_info.last_seen
         THEN <<Head(sorted)>> \o InsertByLastSeen(Tail(sorted), topic_info)
         ELSE <<topic_info>> \o sorted

RECURSIVE SortByLastSeen(_)
\* topics.sort(key=lambda t: t.last_seen, reverse=True): stable, most recent first.
SortByLastSeen(topics) ==
    IF topics = <<>> THEN <<>>
    ELSE InsertByLastSeen(SortByLastSeen(SubSeq(topics, 1, Len(topics) - 1)),
                          topics[Len(topics)])

\* TopicTracker.get_topics(include_inactive) at time t: the dict it leaves
\* and the list it returns.
GetTopics(topics, include_inactive, inactive_timeout, t) ==
    LET kept == IF ~include_inactive THEN PruneInactiveTopics(topics, inactive_timeout, t)
                ELSE topics
    IN  [topics |-> kept, result |-> SortByLastSeen(kept)]

\* TopicTracker.get_topic_count() at time t.
GetTopicCount(topics, inactive_timeout, t) ==
    LET kept == PruneInactiveTopics(topics, inactive_timeout, t)
    IN  [topics |-> kept, result |-> Len(kept)]

\* TopicTracker.get_topic(topic_name)
GetTopic(topics, topic_name) ==
    IF IndexOf(topics, topic_name) > 0 THEN Some(topics[IndexOf(topics, topic_name)]) ELSE None

TrackerOp(op, arg, result, pruned) ==
    [op |-> op, arg |-> arg, result |-> result, pruned |-> pruned]

\* TopicTracker.__init__(inactive_timeout=inactive_timeout)
InitTracker(inactive_timeout) ==
    /\ t_topics = <<>>
    /\ t_timeout = inactive_timeout
    /\ t_now = 0
    /\ t_observed = EmptyDict
    /\ t_last = TrackerOp("init", None, None, 0)

(* RedisClient *)

\* Where a thread stands: `at` is "idle" between calls, "subscribe_acquire" /
\* "unsubscribe_acquire" at the with statement of the method, "start_acquire"
\* at the with statement of _start_subscriber_thread; `ret` says how its last
\* call ended.
RedisPc(at, channel, callback, ret) ==
    [at |-> at, channel |-> channel, callback |-> callback, ret |-> ret]

RedisIdle(ret) == RedisPc("idle", "-", "-", ret)

\* The RedisClient as a record.
RedisSt ==
    [subscriptions |-> r_subscriptions, pubsub |-> r_pubsub, running |-> r_running,
     listener |-> r_listener, lock |-> r_lock, pc |-> r_pc]

\* RedisClient._start_subscriber_thread(), once thread c has acquired the lock.
StartSubscriberThread(st, c) ==
    LET started == IF ~st.listener THEN [st EXCEPT !.running = TRUE, !.listener = TRUE]
                   ELSE st
    IN  [started EXCEPT !.lock = None, !.pc[c] = RedisIdle("returned")]

\* The body of RedisClient.subscribe(channel, callback) run by thread c under
\* the lock; rc is the outcome of self._pubsub.subscribe(channel).  The call of
\* _start_subscriber_thread() is made with the lock still held.
RedisSubscribeBody(st, c, rc) ==
    LET stored == [st EXCEPT !.subscriptions = DictSet(@, st.pc[c].channel, st.pc[c].callback)]
    IN  IF rc # "ok"
        THEN [stored EXCEPT !.lock = None, !.pc[c] = RedisIdle("raised")]
        ELSE LET sub == [stored EXCEPT !.pubsub = @ \cup {st.pc[c].channel}]
             IN  IF ~sub.running
                 THEN [sub EXCEPT !.pc[c].at = "start_acquire"]
                 ELSE [sub EXCEPT !.lock = None, !.pc[c] = RedisIdle("returned")]

\* RedisClient._stop_listener(): the flag is cleared and the thread joined.
StopListener(st) == [st EXCEPT !.running = FALSE, !.listener = FALSE]

\* The body of RedisClient.unsubscribe(channel) run by thread c under the lock.
RedisUnsubscribeBody(st, c, rc) ==
    IF st.pc[c].channel \in DOMAIN st.subscriptions
    THEN LET deleted == [st EXCEPT !.subscriptions = DictDel(@, st.pc[c].channel)]
         IN  IF rc # "ok"
             THEN [deleted EXCEPT !.lock = None, !.pc[c] = RedisIdle("raised")]
             ELSE LET un == [deleted EXCEPT !.pubsub = @ \ {st.pc[c].channel}]
                      stopped == IF DOMAIN un.subscriptions = {} /\ un.running
                                 THEN StopListener(un) ELSE un
                  IN  [stopped EXCEPT !.lock = None, !.pc[c] = RedisIdle("returned")]
    ELSE [st EXCEPT !.lock = None, !.pc[c] = RedisIdle("returned")]

\* Thread c enters a with self._subscription_lock block: it gets the lock when
\* nobody holds it, itself included, and runs the block.
RedisAcquire(st, c, rc) ==
    LET locked == [st EXCEPT !.lock = Some(c)]
    IN  CASE st.pc[c].at = "subscribe_acquire" -> RedisSubscribeBody(locked, c, rc)
          [] st.pc[c].at = "unsubscribe_acquire" -> RedisUnsubscribeBody(locked, c, rc)
          [] OTHER -> StartSubscriberThread(locked, c)

\* RedisClient.__init__
InitRedis ==
    /\ r_subscriptions = EmptyDict
    /\ r_pubsub = {}
    /\ r_running = FALSE
    /\ r_listener = FALSE
    /\ r_lock = None
    /\ r_pc = [c \in RedisThreads |-> RedisIdle("-")]

\* The services of the dashboard backend that subscribe on the shared
\* Broker Connection, and the pattern each one subscribes.
Services == {"sys_monitor", "topic_tracker"}

ServicePattern(svc) == IF svc = "sys_monitor" THEN <<"$SYS", "#">> ELSE <<"#">>

\* self._on_sys_message / self._on_topic_message as registered callbacks.
ServiceCallback(svc) == [owner |-> svc, topic |-> NoTopic]

ServiceSt == St @@ [s_subscribed |-> s_subscribed, sys_lock |-> sys_lock]

\* SysMonitor.subscribe() / TopicTracker.subscribe()
ServiceSubscribe(st, svc, rc) ==
    IF st.s_subscribed[svc]
    THEN [st EXCEPT !.ret = TRUE]
    ELSE IF ~st.connected
         THEN [st EXCEPT !.ret = FALSE]
         ELSE LET sub == MqttSubscribe(st, ServicePattern(svc), ServiceCallback(svc), rc)
              IN  IF sub.ret THEN [sub EXCEPT !.s_subscribed[svc] = TRUE] ELSE sub

\* init_sys_monitor() / init_topic_tracker(): the service subscribes when the
\* client is connected, and logs a warning otherwise.
InitService(st, svc, rc) ==
    IF st.connected THEN ServiceSubscribe(st, svc, rc) ELSE st

\* The result of GET /broker/stats (sys_monitor) and of GET /topics
\* (topic_tracker); is_subscribed and get_stats() of the SysMonitor take its
\* lock, and the request does not return while the lock is held.
Query(st, svc) ==
    IF ~st.connected
    THEN [code |-> "BROKER_DISCONNECTED", returned |-> TRUE]
    ELSE IF svc = "sys_monitor" /\ st.sys_lock
         THEN [code |-> "-", returned |-> FALSE]
         ELSE IF ~st.s_subscribed[svc]
              THEN [code |-> IF svc = "sys_monitor" THEN "SYS_NOT_SUBSCRIBED"
                             ELSE "TOPIC_TRACKER_NOT_SUBSCRIBED",
                    returned |-> TRUE]
              ELSE [code |-> "data", returned |-> TRUE]

InitServices ==
    /\ s_init = [svc \in Services |-> "no"]
    /\ s_subscribed = [svc \in Services |-> FALSE]

\* The pattern the concurrent calls on the SubscriptionManager are about.
RacePattern == <<"home", "#">>

\* unsubscribe_client, the block under self._lock (lines 123-141): the state
\* it leaves and the flag should_unsubscribe_mqtt.
UnsubscribeLocked(st, client_id, topic) ==
    LET tc == st.topic_clients
        cs == st.client_subscriptions
        in_topic == topic \in DOMAIN tc
        tc1 == IF in_topic THEN DictSet(tc, topic, tc[topic] \ {client_id}) ELSE tc
        should_unsubscribe_mqtt == in_topic /\ tc1[topic] = {}
        tc2 == IF should_unsubscribe_mqtt THEN DictDel(tc1, topic) ELSE tc1
        cs1 == IF client_id \in DOMAIN cs
               THEN DictSet(cs, client_id, cs[client_id] \ {topic}) ELSE cs
        cs2 == IF client_id \in DOMAIN cs /\ cs1[client_id] = {}
               THEN DictDel(cs1, client_id) ELSE cs1
    IN  [st |-> Snap([st EXCEPT !.topic_clients = tc2, !.client_subscriptions = cs2]),
         should_unsubscribe_mqtt |-> should_unsubscribe_mqtt]

InitRace ==
    /\ x_pc = [client_id \in Sessions |-> "idle"]
    /\ x_ret = [client_id \in Sessions |-> "-"]

\* Registration variant that replaces the callbacks of the pattern.
SubscribeRegisterReplacing(st, topic, callback) ==
    [st EXCEPT !.calls = Append(@, Call("mqtt", "subscribe", topic, "-")),
               !.message_callbacks = DictSet(@, topic, <<callback>>)]

\* MQTTClient.subscribe up to the end of its locked block (lines 158-167): the
\* callback is appended to the list of the pattern.
SubscribeRegister(st, topic, callback) ==
    [st EXCEPT !.calls = Append(@, Call("mqtt", "subscribe", topic, "-")),
               !.message_callbacks =
                   DictSet(@, topic, Append(DictGet(@, topic, <<>>), callback))]

\* MQTTClient.subscribe from the network call on (lines 169-173).
SubscribeNetwork(st, topic, rc) ==
    [st EXCEPT !.calls = Append(@, Call("net", "subscribe", topic, rc)),
               !.ret = (rc = "ok")]

InitFlight == f_pc = None

\* The network-loop threads of paho that run the callbacks of the MQTTClient:
\* the one of self._client, and the one of a client that a later connect()
\* replaced without stopping its loop.
Dispatchers == {"current", "leaked"}

LoopIds == 1..MaxLoops

\* threading.Thread.is_alive() of reconnect-loop thread i.
Alive(pc, i) == pc[i] \in {"check", "attempt", "wait"}

LoopSt ==
    St @@ [l_pc |-> l_pc, l_ref |-> l_ref, d_pc |-> d_pc, p_pc |-> p_pc, p_link |-> p_link]

\* The flags of the coarse model, read off the threads.
Sync(st) ==
    [st EXCEPT !.reconnect_thread = (st.l_ref # 0 /\ Alive(st.l_pc, st.l_ref)),
               !.loop_running = (st.p_pc["current"] # "off"),
               !.pending_ack = (st.p_link["current"] = "pending")]

\* connect(): a new paho client replaces self._client; the loop of the
\* replaced client is not stopped.
LoopConnectSt(st, outcome) ==
    LET kept == IF st.p_pc["current"] # "off"
                THEN [st EXCEPT !.p_pc["leaked"] = st.p_pc["current"],
                                !.p_link["leaked"] = st.p_link["current"]]
                ELSE st
        r == MqttConnect(kept, outcome, <<>>)
    IN  [r EXCEPT !.p_pc["current"] = IF outcome = "raise" THEN "off" ELSE "idle",
                  !.p_link["current"] = CASE outcome = "ack" -> "up"
                                          [] outcome = "timeout" -> "pending"
                                          [] OTHER -> "none"]

\* _start_reconnect up to its test of is_alive(): the caller returns, or goes
\* on to create the thread.
StartReconnectTest(st, k) ==
    IF st.l_ref # 0 /\ Alive(st.l_pc, st.l_ref)
    THEN st
    ELSE [st EXCEPT !.p_pc[k] = "create"]

\* _on_disconnect up to the test in _start_reconnect, run by dispatcher k.
OnDisconnectSt(st, k) ==
    LET flagged == [st EXCEPT !.connected = FALSE, !.p_link[k] = "none"]
    IN  IF ~flagged.stop_reconnect THEN StartReconnectTest(flagged, k) ELSE flagged

\* One pass of the while loop of _reconnect_loop up to the reconnect() call
\* or the wait.
LoopCheckSt(st, i) ==
    IF st.stop_reconnect
    THEN [st EXCEPT !.l_pc[i] = "done"]
    ELSE IF ~st.connected /\ st.client
         THEN [st EXCEPT !.l_pc[i] = "attempt"]
         ELSE [st EXCEPT !.l_pc[i] = "wait"]

\* self._client.reconnect() returns or raises; the loop goes on to wait.
LoopAttemptSt(st, i, outcome) ==
    IF st.client /\ outcome = "sent"
    THEN [st EXCEPT !.l_pc[i] = "wait", !.p_link["current"] = "pending"]
    ELSE [st EXCEPT !.l_pc[i] = "wait"]

\* disconnect(), lines 101-103: the stop event is set, and the reconnect
\* thread is joined when it is alive.
DisconnectBeginSt(st) ==
    LET stopped == [st EXCEPT !.stop_reconnect = TRUE]
    IN  IF st.l_ref # 0 /\ Alive(st.l_pc, st.l_ref)
        THEN [stopped EXCEPT !.d_pc = "join"]
        ELSE [stopped EXCEPT !.d_pc = "teardown"]

\* disconnect(), lines 105-111.
DisconnectTeardownSt(st) ==
    LET down == IF st.client
                THEN [st EXCEPT !.client = FALSE, !.p_pc["current"] = "off",
                                !.p_link["current"] = "none"]
                ELSE st
    IN  [down EXCEPT !.connected = FALSE, !.d_pc = "idle", !.api_state = "disconnected"]

InitLoop ==
    /\ l_pc = [i \in LoopIds |-> "none"]
    /\ l_ref = 0
    /\ d_pc = "idle"
    /\ p_pc = [k \in Dispatchers |-> "off"]
    /\ p_link = [k \in Dispatchers |-> "none"]

InitRest == InitRedis /\ InitServices /\ InitRace /\ InitFlight /\ InitLoop

Init == InitMqtt /\ InitSys /\ InitMatcher /\ InitBridge /\ InitTracker(InactiveTimeout) /\ InitRest

\* A caller runs MQTTClient.connect() while not connected.
Connect ==
    /\ ~connected
    /\ \E outcome \in {"raise", "ack", "refused", "timeout"} :
       \E topics \in Orderings(DOMAIN message_callbacks) :
          LET st == MqttConnect(St, outcome, topics)
          IN  Commit(st, Op("connect", NoSession, NoTopic, NoPayload, st.ret))
    /\ forwards' = NoForwards
    /\ UNCHANGED message_callback

\* A caller runs MQTTClient.disconnect().
Disconnect ==
    /\ Commit(MqttDisconnect(St), Op("disconnect", NoSession, NoTopic, NoPayload, FALSE))
    /\ forwards' = NoForwards
    /\ UNCHANGED message_callback

\* The broker drops the connection: paho runs _on_disconnect.
BrokerDisconnect ==
    /\ client /\ connected
    /\ Commit(OnDisconnect(St), Op("on_disconnect", NoSession, NoTopic, NoPayload, FALSE))
    /\ forwards' = NoForwards
    /\ UNCHANGED message_callback

\* One iteration of _reconnect_loop that calls self._client.reconnect(): the
\* call fails ("error"), or the broker answers and the network loop runs
\* _on_connect with a success ("ack") or a failure ("refused") reason code.
ReconnectAttempt ==
    /\ reconnect_thread /\ ~stop_reconnect
    /\ ~connected /\ client
    /\ \E outcome \in {"error"} \cup (IF loop_running THEN {"ack", "refused"} ELSE {}) :
       \E topics \in Orderings(DOMAIN message_callbacks) :
          LET st == CASE outcome = "ack" -> OnConnect(St, TRUE, topics)
                      [] outcome = "refused" -> OnConnect(St, FALSE, topics)
                      [] OTHER -> St
          IN  Commit(st, Op("reconnect", NoSession, NoTopic, NoPayload, st.connected))
    /\ forwards' = NoForwards
    /\ UNCHANGED message_callback

\* The acknowledgement of a CONNECT arrives after connect() has timed out: the
\* network loop, still running, calls _on_connect.
LateAck ==
    /\ client /\ loop_running /\ pending_ack
    /\ \E reason_ok \in BOOLEAN :
       \E topics \in Orderings(DOMAIN message_callbacks) :
          LET st == OnConnect([St EXCEPT !.pending_ack = FALSE], reason_ok, topics)
          IN  Commit(st, Op("on_connect", NoSession, NoTopic, NoPayload, st.connected))
    /\ forwards' = NoForwards
    /\ UNCHANGED message_callback

\* SubscriptionManager.set_message_callback(callback)
SetMessageCallback ==
    /\ ~message_callback
    /\ message_callback' = TRUE
    /\ Commit(St, Op("set_message_callback", NoSession, NoTopic, NoPayload, TRUE))
    /\ forwards' = NoForwards

\* A caller runs subscribe_client(client_id, topic); a call that would grow a
\* callback list already MaxCallbacks long is left out.
DoSubscribeClient ==
    \E client_id \in Sessions, topic \in Patterns, rc \in NetOutcomes :
       /\ (connected /\ client /\ IsNewTopic(topic_clients, topic)) =>
              Len(DictGet(message_callbacks, topic, <<>>)) < MaxCallbacks
       /\ LET st == SubscribeClient(St, client_id, topic, rc)
          IN  Commit(st, Op("subscribe_client", client_id, topic, NoPayload, st.ret))
       /\ forwards' = NoForwards
    /\ UNCHANGED message_callback

\* A caller runs unsubscribe_client(client_id, topic).
DoUnsubscribeClient ==
    \E client_id \in Sessions, topic \in Patterns, rc \in NetOutcomes :
       /\ LET st == UnsubscribeClient(St, client_id, topic, rc)
          IN  Commit(st, Op("unsubscribe_client", client_id, topic, NoPayload, st.ret))
       /\ forwards' = NoForwards
    /\ UNCHANGED message_callback

\* A caller runs unsubscribe_client_all(client_id).
DoUnsubscribeClientAll ==
    \E client_id \in Sessions :
    \E topics \in Orderings(DictGet(client_subscriptions, client_id, {})) :
    \E rcs \in [Patterns -> NetOutcomes] :
       /\ LET st == UnsubscribeClientAll(St, client_id, topics, rcs)
          IN  Commit(st, Op("unsubscribe_client_all", client_id, NoTopic, NoPayload, st.ret))
       /\ forwards' = NoForwards
    /\ UNCHANGED message_callback

\* paho delivers a message: MQTTClient._on_message runs every matching callback.
Dispatch ==
    /\ client /\ connected
    /\ \E topic \in Topics, payload \in Payloads :
       /\ forwards' = [x \in Sessions \X Patterns |->
                          ForwardCount(message_callbacks, topic_clients, message_callback,
                                       topic, x[1], x[2])]
       /\ Commit(St, Op("on_message", NoSession, topic, payload, TRUE))
    /\ UNCHANGED message_callback

\* A caller other than the multiplexer runs MQTTClient.subscribe(topic, callback).
DoMqttSubscribe ==
    /\ \E topic \in ClientPatterns, id \in Callbacks, rc \in NetOutcomes :
       /\ (connected /\ client) => Len(DictGet(message_callbacks, topic, <<>>)) < MaxCallbacks
       /\ LET st == MqttSubscribe(St, topic, ExtCallback(id), rc)
          IN  Commit(st, Op("mqtt_subscribe", NoSession, topic, NoPayload, st.ret))
    /\ forwards' = NoForwards
    /\ UNCHANGED message_callback

\* A caller other than the multiplexer runs MQTTClient.unsubscribe(topic).
DoMqttUnsubscribe ==
    /\ \E topic \in ClientPatterns, rc \in NetOutcomes :
          LET st == MqttUnsubscribe(St, topic, rc)
          IN  Commit(st, Op("mqtt_unsubscribe", NoSession, topic, NoPayload, st.ret))
    /\ forwards' = NoForwards
    /\ UNCHANGED message_callback

\* paho delivers a message with a raw payload: _on_message decodes it and runs
\* the callbacks of every matching pattern; any of them may raise.
MqttDispatch ==
    /\ client /\ connected
    /\ \E topic \in Topics, raw \in RawPayloads, raising \in SUBSET Callbacks :
       \E order \in Orderings({p \in DOMAIN message_callbacks : TopicMatches(p, topic)}) :
          Commit(OnMessage(St, topic, raw, raising, order),
                 Op("mqtt_on_message", NoSession, topic, raw, TRUE))
    /\ forwards' = NoForwards
    /\ UNCHANGED message_callback

Next ==
    \/ Connect
    \/ Disconnect
    \/ BrokerDisconnect
    \/ ReconnectAttempt
    \/ LateAck
    \/ SetMessageCallback
    \/ DoSubscribeClient
    \/ DoUnsubscribeClient
    \/ DoUnsubscribeClientAll
    \/ Dispatch

Spec == Init /\ [][Next]_vars

\* The Broker Connection used on its own, by callers that register their own
\* callbacks.
NextClient ==
    \/ Connect
    \/ Disconnect
    \/ BrokerDisconnect
    \/ ReconnectAttempt
    \/ LateAck
    \/ DoMqttSubscribe
    \/ DoMqttUnsubscribe
    \/ MqttDispatch

SpecClient == Init /\ [][NextClient]_vars

\* The broker connection's dispatch thread runs _on_sys_message(topic, payload).
SysMessage ==
    /\ sys_pc = "idle" /\ ~sys_lock
    /\ \E topic \in SysTopics, payload \in SysPayloads :
          LET st == OnSysMessage(SysSt, topic, payload, now)
          IN  /\ stats' = st.stats
              /\ sys_lock' = st.sys_lock
              /\ sys_pc' = st.sys_pc
              /\ notified' = st.notified
              /\ sys_last' = SysOp("sys_message", topic, payload, st.outcome, None)
    /\ UNCHANGED <<update_callbacks, now, held, mqttVars, muxVars, historyVars, matchVars,
                   bridgeVars, trackerVars, restVars>>

\* Another thread (an API request) calls get_stats() and keeps the object returned.
SysGetStats ==
    /\ ~GetStats(SysSt).blocked
    /\ held' = Some([alias |-> GetStats(SysSt).alias, fields |-> GetStats(SysSt).snapshot])
    /\ sys_last' = SysOp("get_stats", "", <<>>, "-", Some(GetStats(SysSt).snapshot))
    /\ notified' = <<>>
    /\ UNCHANGED <<stats, sys_lock, sys_pc, update_callbacks, now,
                   mqttVars, muxVars, historyVars, matchVars,
                   bridgeVars, trackerVars, restVars>>

\* The caller assigns to a field of the object it got from get_stats(): the
\* assignment lands in the live record when the object is the live record.
MutateSnapshot ==
    /\ held # None
    /\ \E value \in {Some(99)} :
          IF held[1].alias
          THEN /\ stats' = [stats EXCEPT !.uptime = value]
               /\ UNCHANGED held
          ELSE /\ held' = Some([held[1] EXCEPT !.fields.uptime = value])
               /\ UNCHANGED stats
    /\ sys_last' = SysOp("mutate_snapshot", "", <<>>, "-", None)
    /\ notified' = <<>>
    /\ UNCHANGED <<sys_lock, sys_pc, update_callbacks, now,
                   mqttVars, muxVars, historyVars, matchVars,
                   bridgeVars, trackerVars, restVars>>

\* add_update_callback(callback)
AddUpdateCallback ==
    /\ ~sys_lock
    /\ Len(update_callbacks) < MaxUpdateCallbacks
    /\ \E callback \in UpdateCallbacks :
          /\ update_callbacks' = Append(update_callbacks, callback)
          /\ sys_last' = SysOp("add_update_callback", callback, <<>>, "-", None)
    /\ notified' = <<>>
    /\ UNCHANGED <<stats, sys_lock, sys_pc, now, held, mqttVars, muxVars, historyVars, matchVars,
                   bridgeVars, trackerVars, restVars>>

\* list.remove(x): the list without the first occurrence of x.
ListRemove(list, x) ==
    LET first == CHOOSE i \in 1..Len(list) : list[i] = x /\ \A j \in 1..(i - 1) : list[j] # x
    IN  [i \in 1..(Len(list) - 1) |-> IF i < first THEN list[i] ELSE list[i + 1]]

\* remove_update_callback(callback)
RemoveUpdateCallback ==
    /\ ~sys_lock
    /\ \E callback \in UpdateCallbacks :
          /\ update_callbacks' =
                IF \E i \in 1..Len(update_callbacks) : update_callbacks[i] = callback
                THEN ListRemove(update_callbacks, callback)
                ELSE update_callbacks
          /\ sys_last' = SysOp("remove_update_callback", callback, <<>>, "-", None)
    /\ notified' = <<>>
    /\ UNCHANGED <<stats, sys_lock, sys_pc, now, held, mqttVars, muxVars, historyVars, matchVars,
                   bridgeVars, trackerVars, restVars>>

\* Time passes.
Tick ==
    /\ now < MaxClock
    /\ now' = now + 1
    /\ sys_last' = SysOp("tick", "", <<>>, "-", None)
    /\ notified' = <<>>
    /\ UNCHANGED <<stats, sys_lock, sys_pc, update_callbacks, held,
                   mqttVars, muxVars, historyVars, matchVars,
                   bridgeVars, trackerVars, restVars>>

NextSys ==
    \/ SysMessage
    \/ SysGetStats
    \/ AddUpdateCallback
    \/ RemoveUpdateCallback
    \/ MutateSnapshot
    \/ Tick

SpecSys == Init /\ [][NextSys]_vars

\* The matcher applied to every pattern and topic of at most MaxSegments segments.
InitMatch ==
    /\ InitMqtt /\ InitSys /\ InitBridge /\ InitTracker(InactiveTimeout) /\ InitRest
    /\ m_pattern \in SegmentSeqs(PatternSegments)
    /\ m_topic \in SegmentSeqs(TopicSegments)
    /\ m_done = FALSE
    /\ m_result = FALSE

\* _topic_matches(pattern, topic) is called.
ApplyMatcher ==
    /\ ~m_done
    /\ m_done' = TRUE
    /\ m_result' = TopicMatches(m_pattern, m_topic)
    /\ UNCHANGED <<m_pattern, m_topic, mqttVars, muxVars, historyVars, sysVars,
                   bridgeVars, trackerVars, restVars>>

NextMatch == ApplyMatcher

SpecMatch == InitMatch /\ [][NextMatch]_vars

\* The statistics messages on the bus among `messages`.
StatsMessages(messages) ==
    SelectSeq(messages, LAMBDA m : m.channel = "mqtt:broker:stats")

\* The broker connection's dispatch thread runs _handle_sys_message(topic, payload).
BridgeSysMessage ==
    /\ \E topic \in BridgeSysTopics, payload \in BridgePayloads, redis_ok \in BOOLEAN :
          LET st == HandleSysMessage(BridgeStatsSt, topic, payload, b_now, redis_ok)
          IN  /\ b_stats' = st.stats
              /\ b_last_publish' = st.last_publish
              /\ bus' = st.bus
              /\ b_published' = IF StatsMessages(st.bus) = <<>> THEN b_published
                                ELSE Some(StatsMessages(st.bus)[Len(StatsMessages(st.bus))].data)
              /\ b_pub_time' = IF StatsMessages(st.bus) = <<>> THEN b_pub_time ELSE Some(b_now)
              /\ b_last' = BridgeOp("sys_message", <<topic, payload>>)
    /\ attempts' = <<>>
    /\ UNCHANGED <<b_phase, b_now, b_topic_callbacks, b_status, b_unsub_seen,
                   mqttVars, muxVars, historyVars, sysVars, matchVars, trackerVars, restVars>>

\* Time passes in the bridge process.
BridgeTick ==
    /\ b_now < MaxBridgeClock
    /\ b_now' = b_now + 1
    /\ bus' = <<>>
    /\ attempts' = <<>>
    /\ b_last' = BridgeOp("tick", None)
    /\ UNCHANGED <<b_phase, b_stats, b_last_publish, b_topic_callbacks, b_published,
                   b_pub_time, b_status, b_unsub_seen,
                   mqttVars, muxVars, historyVars, sysVars, matchVars, trackerVars, restVars>>

NextBridgeStats ==
    \/ BridgeSysMessage
    \/ BridgeTick

SpecBridgeStats == Init /\ [][NextBridgeStats]_vars

\* The status messages on the bus among `messages`.
StatusMessages(messages) ==
    SelectSeq(messages, LAMBDA m : m.channel = "mqtt:broker:status")

\* The state a step of the Bridge leaves behind.
CommitBridge(st, op) ==
    /\ CommitCore(st, Op(op.op, NoSession, NoTopic, NoPayload, st.ret))
    /\ forwards' = NoForwards
    /\ b_phase' = st.phase
    /\ b_topic_callbacks' = st.topic_callbacks
    /\ bus' = st.bus
    /\ attempts' = st.attempts
    /\ b_status' = IF StatusMessages(st.bus) = <<>> THEN b_status
                   ELSE Some(StatusMessages(st.bus)[Len(StatusMessages(st.bus))].data.connected)
    /\ b_unsub_seen' = (b_unsub_seen \/ (op.op = "command" /\ op.command.type = "cmd_unsubscribe"))
    /\ b_last' = op
    /\ UNCHANGED <<message_callback, b_stats, b_last_publish, b_now, b_published, b_pub_time,
                   muxVars, sysVars, matchVars, trackerVars, restVars>>

\* mqtt_service.main() runs bridge.start().
BridgeStart ==
    /\ b_phase = "new"
    /\ \E outcome \in {"raise", "ack", "refused", "timeout"}, rc \in NetOutcomes,
          redis \in {"ok", "subscribe_raises", "subscribe_blocks", "publish_raises"} :
          CommitBridge(Start(BridgeSt, outcome, rc, redis, b_now), BridgeOp("start", None))

\* The listener thread of the bus client runs _handle_command(command).
BridgeCommand ==
    /\ b_phase = "running"
    /\ \E command \in Commands, rc \in NetOutcomes :
          /\ Len(DictGet(message_callbacks, GetOr(command.topic, EmptyTopic), <<>>)) < MaxCallbacks
          /\ CommitBridge(HandleCommand(BridgeSt, command, rc), BridgeOp("command", command))

\* The broker delivers a message: paho runs _on_message.
BridgeDispatch ==
    /\ b_phase \in {"running", "blocked"} /\ client /\ connected
    /\ \E topic \in Topics, raw \in {<<50, 49>>}, redis_ok \in BOOLEAN :
       \E order \in Orderings({p \in DOMAIN message_callbacks : TopicMatches(p, topic)}) :
          CommitBridge(BridgeOnMessage(BridgeSt, topic, raw, redis_ok, order, b_now),
                       BridgeOp("dispatch", topic))

\* The broker drops the Bridge's connection: paho runs _on_disconnect.
BridgeBrokerDisconnect ==
    /\ b_phase \in {"running", "blocked"} /\ client /\ connected
    /\ CommitBridge(OnDisconnect(BridgeSt), BridgeOp("on_disconnect", None))

\* One iteration of _reconnect_loop of the Bridge's connection.
BridgeReconnectAttempt ==
    /\ b_phase \in {"running", "blocked"}
    /\ reconnect_thread /\ ~stop_reconnect
    /\ ~connected /\ client
    /\ \E outcome \in {"error"} \cup (IF loop_running THEN {"ack", "refused"} ELSE {}) :
       \E topics \in Orderings(DOMAIN message_callbacks) :
          CommitBridge(CASE outcome = "ack" -> OnConnect(BridgeSt, TRUE, topics)
                         [] outcome = "refused" -> OnConnect(BridgeSt, FALSE, topics)
                         [] OTHER -> BridgeSt,
                       BridgeOp("reconnect", None))

\* run() catches KeyboardInterrupt and calls stop().
BridgeStop ==
    /\ b_phase = "running"
    /\ \E redis_ok \in BOOLEAN, mqtt_outcome \in {"ok", "loop_stop_raises", "disconnect_raises"},
          redis_closes \in BOOLEAN :
       \E failing \in SUBSET {b_topic_callbacks[i] : i \in 1..Len(b_topic_callbacks)} :
          CommitBridge(Stop(BridgeSt, redis_ok, failing, mqtt_outcome, redis_closes, b_now),
                       BridgeOp("stop", None))

NextBridge ==
    \/ BridgeStart
    \/ BridgeCommand
    \/ BridgeDispatch
    \/ BridgeBrokerDisconnect
    \/ BridgeReconnectAttempt
    \/ BridgeStop

SpecBridge == Init /\ [][NextBridge]_vars

\* A tracker with pruning switched off, or with a positive inactivity window.
InitTrack ==
    /\ InitMqtt /\ InitSys /\ InitMatcher /\ InitBridge /\ InitRest
    /\ \E inactive_timeout \in {0, InactiveTimeout} : InitTracker(inactive_timeout)

\* The state a call on the tracker leaves behind; the messages observed per
\* record are kept for the records that remain.
CommitTracker(topics, op) ==
    /\ t_topics' = topics
    /\ t_observed' = [topic \in {topics[i].topic : i \in 1..Len(topics)} |->
                          IF op.op = "on_topic_message" /\ op.arg = topic
                          THEN DictGet(t_observed, topic, 0) + 1
                          ELSE t_observed[topic]]
    /\ t_last' = op
    /\ UNCHANGED <<t_timeout, mqttVars, muxVars, historyVars, sysVars, matchVars, bridgeVars,
                   restVars>>

\* The broker connection's dispatch thread runs _on_topic_message(topic, payload).
TrackerMessage ==
    /\ \E topic \in TrackerTopics, payload \in TrackerPayloads :
          /\ \A i \in 1..Len(t_topics) :
                 t_topics[i].topic = topic => t_topics[i].message_count < MaxMessages
          /\ CommitTracker(OnTopicMessage(t_topics, topic, payload, t_now),
                           TrackerOp("on_topic_message", topic, None, 0))
    /\ UNCHANGED t_now

\* A caller runs get_topics(include_inactive).
TrackerGetTopics ==
    /\ \E include_inactive \in BOOLEAN :
          LET r == GetTopics(t_topics, include_inactive, t_timeout, t_now)
          IN  CommitTracker(r.topics, TrackerOp("get_topics", include_inactive, r.result,
                                                Len(t_topics) - Len(r.topics)))
    /\ UNCHANGED t_now

\* A caller runs get_topic_count().
TrackerGetTopicCount ==
    /\ LET r == GetTopicCount(t_topics, t_timeout, t_now)
       IN  CommitTracker(r.topics, TrackerOp("get_topic_count", None, r.result,
                                             Len(t_topics) - Len(r.topics)))
    /\ UNCHANGED t_now

\* A caller runs get_topic(topic_name).
TrackerGetTopic ==
    /\ \E topic_name \in TrackerTopics :
          CommitTracker(t_topics, TrackerOp("get_topic", topic_name,
                                            GetTopic(t_topics, topic_name), 0))
    /\ UNCHANGED t_now

\* A caller runs clear_topics().
TrackerClear ==
    /\ CommitTracker(<<>>, TrackerOp("clear_topics", None, None, 0))
    /\ UNCHANGED t_now

\* Time passes in the process of the tracker.
TrackerTick ==
    /\ t_now < MaxTrackerClock
    /\ t_now' = t_now + 1
    /\ CommitTracker(t_topics, TrackerOp("tick", None, None, 0))

NextTracker ==
    \/ TrackerMessage
    \/ TrackerGetTopics
    \/ TrackerGetTopicCount
    \/ TrackerGetTopic
    \/ TrackerClear
    \/ TrackerTick

SpecTracker == InitTrack /\ [][NextTracker]_vars

\* The state a step of a thread in the RedisClient leaves behind.
CommitRedis(st) ==
    /\ r_subscriptions' = st.subscriptions
    /\ r_pubsub' = st.pubsub
    /\ r_running' = st.running
    /\ r_listener' = st.listener
    /\ r_lock' = st.lock
    /\ r_pc' = st.pc
    /\ UNCHANGED <<mqttVars, muxVars, historyVars, sysVars, matchVars, bridgeVars, trackerVars,
                   exceptRedis>>

\* A thread calls subscribe(channel, callback) and reaches its with statement.
RedisSubscribe ==
    \E c \in RedisThreads, channel \in Channels, callback \in ChannelCallbacks :
        /\ r_pc[c].at = "idle"
        /\ CommitRedis([RedisSt EXCEPT
                            !.pc[c] = RedisPc("subscribe_acquire", channel, callback, "-")])

\* A thread calls unsubscribe(channel) and reaches its with statement.
RedisUnsubscribe ==
    \E c \in RedisThreads, channel \in Channels :
        /\ r_pc[c].at = "idle"
        /\ CommitRedis([RedisSt EXCEPT
                            !.pc[c] = RedisPc("unsubscribe_acquire", channel, "-", "-")])

\* A thread waiting at a with statement gets the lock and runs the block.
RedisEnter ==
    \E c \in RedisThreads, rc \in {"ok", "raise"} :
        /\ r_pc[c].at \in {"subscribe_acquire", "unsubscribe_acquire", "start_acquire"}
        /\ r_lock = None
        /\ CommitRedis(RedisAcquire(RedisSt, c, rc))

NextRedis ==
    \/ RedisSubscribe
    \/ RedisUnsubscribe
    \/ RedisEnter

SpecRedis == Init /\ [][NextRedis]_vars

\* Time keeps passing; the broker is not obliged to send further metric messages.
SpecBridgeStatsFair == SpecBridgeStats /\ WF_vars(BridgeTick)

-----------------------------------------------------------------------------
(* Vocabulary of the properties *)

\* Sessions registered for a pattern in the per-pattern index.
SessionsOf(tc, p) == DictGet(tc, p, {})

\* Patterns registered for a session in the per-session index.
PatternsOf(cs, s) == DictGet(cs, s, {})

\* Number of multiplexer callbacks the registration table holds under p.
MuxCallbackCount(mc, p) ==
    Cardinality({i \in 1..Len(DictGet(mc, p, <<>>)) : mc[p][i] = MuxCallback(p)})

\* How many times a handler made the given call.
CallCount(cl, layer, op, p) ==
    Cardinality({i \in 1..Len(cl) :
                    cl[i].layer = layer /\ cl[i].op = op /\ cl[i].topic = p})

\* The two indices describe the same relation, with no empty entry, and the
\* reference count of a pattern is the number of sessions that list it.
Mirror(tc, cs) ==
    /\ DOMAIN tc \subseteq Patterns
    /\ DOMAIN cs \subseteq Sessions
    /\ \A s \in Sessions, p \in Patterns : (s \in SessionsOf(tc, p)) <=> (p \in PatternsOf(cs, s))
    /\ \A p \in Patterns :
          Cardinality(SessionsOf(tc, p)) = Cardinality({s \in Sessions : p \in PatternsOf(cs, s)})

HomeAll == <<"home", "#">>

OfficeAll == <<"office", "#">>

HomeTemp == <<"home", "temp">>

-----------------------------------------------------------------------------
(* Properties *)

\* C1: every pattern with at least one registered session has exactly one
\* multiplexer callback in the Broker Connection's registration table.
C1_ExactlyOneCallbackPerPattern ==
    \A p \in Patterns :
        SessionsOf(topic_clients, p) # {} => MuxCallbackCount(message_callbacks, p) = 1

\* C2: the registration table holds a multiplexer callback for a pattern only
\* if at least one session is registered for that pattern.
C2_NoCallbackWithoutSession ==
    \A p \in Patterns :
        MuxCallbackCount(message_callbacks, p) > 0 => SessionsOf(topic_clients, p) # {}

\* C3: the two multiplexer indices mirror each other, and the reference count
\* of a pattern is the number of distinct sessions registered for it, in the
\* current state and each time the last handler released the lock.
C3_IndicesMirror ==
    /\ Mirror(topic_clients, client_subscriptions)
    /\ \A i \in 1..Len(steps) : Mirror(steps[i].tc, steps[i].cs)

\* C3 witness: a session subscribed to a pattern it already held alone (no
\* broker call was made) and the pattern still counts one session.
C3_Witness ==
    /\ lastOp.op = "subscribe_client" /\ lastOp.ret
    /\ calls = <<>>
    /\ SessionsOf(topic_clients, lastOp.topic) = {lastOp.client}

\* C4: a subscribe_client call issues one network-level subscribe for its
\* pattern when the broker is connected and the pattern had no session, and
\* none otherwise; it issues none for any other pattern.
C4_OneNetworkSubscribe ==
    [][lastOp'.op = "subscribe_client" =>
          \A p \in Patterns :
              CallCount(calls', "net", "subscribe", p) =
                  IF /\ p = lastOp'.topic
                     /\ connected
                     /\ SessionsOf(topic_clients, p) = {}
                  THEN 1 ELSE 0]_vars

\* C4 witness: a second session joined a pattern and no broker call was made.
C4_Witness ==
    /\ lastOp.op = "subscribe_client" /\ lastOp.ret
    /\ calls = <<>>
    /\ SessionsOf(topic_clients, lastOp.topic) = Sessions

\* C5: unsubscribe_client(s, p) calls the Broker Connection's unsubscribe for p
\* exactly when s was the only session registered for p; otherwise it makes no
\* call at all.
C5_UnsubscribeOnLastSession ==
    [][lastOp'.op = "unsubscribe_client" =>
          LET s == lastOp'.client
              p == lastOp'.topic
              last == SessionsOf(topic_clients, p) = {s}
          IN  /\ CallCount(calls', "mqtt", "unsubscribe", p) = (IF last THEN 1 ELSE 0)
              /\ ~last => calls' = <<>>
              /\ \A q \in Patterns \ {p} : \A layer \in {"mqtt", "net"} :
                    CallCount(calls', layer, "unsubscribe", q) = 0]_vars

\* C5 witness: the last session left a pattern and the network-level
\* unsubscribe was issued.
C5_Witness ==
    /\ lastOp.op = "unsubscribe_client"
    /\ CallCount(calls, "net", "unsubscribe", lastOp.topic) = 1
    /\ SessionsOf(topic_clients, lastOp.topic) = {}

\* C6: a subscribe_client call made while the broker is not connected, or whose
\* network-level subscribe fails or raises, returns false; a call that returns
\* false leaves both indices as they were, and one made while connected leaves
\* no pair (s, p) behind.
C6_FailedSubscribeRollsBack ==
    [][lastOp'.op = "subscribe_client" =>
          LET s == lastOp'.client
              p == lastOp'.topic
          IN  /\ ~connected => ~lastOp'.ret
              /\ (\E i \in 1..Len(calls') : calls'[i].rc \in {"fail", "raise"}) => ~lastOp'.ret
              /\ ~lastOp'.ret =>
                    /\ topic_clients' = topic_clients
                    /\ client_subscriptions' = client_subscriptions
                    /\ mqtt_subscriptions' = mqtt_subscriptions
                    /\ connected => /\ s \notin SessionsOf(topic_clients', p)
                                    /\ p \notin PatternsOf(client_subscriptions', s)
                                    /\ p \notin DOMAIN topic_clients']_vars

\* C6 witness: the network-level subscribe was issued and failed while the
\* session holds another pattern.
C6_Witness ==
    /\ lastOp.op = "subscribe_client" /\ ~lastOp.ret
    /\ \E i \in 1..Len(calls) : calls[i].layer = "net" /\ calls[i].rc = "raise"
    /\ PatternsOf(client_subscriptions, lastOp.client) # {}

\* C7: after unsubscribe_client_all(s), s is in neither index and the Broker
\* Connection's unsubscribe was called once for every pattern s was the last
\* session of; with no subscriptions the call changes nothing and calls nothing.
C7_UnsubscribeAllLeavesNoReference ==
    [][lastOp'.op = "unsubscribe_client_all" =>
          LET s == lastOp'.client
          IN  /\ s \notin DOMAIN client_subscriptions'
              /\ \A p \in Patterns : s \notin SessionsOf(topic_clients', p)
              /\ \A p \in Patterns :
                    SessionsOf(topic_clients, p) = {s} =>
                        CallCount(calls', "mqtt", "unsubscribe", p) = 1
              /\ PatternsOf(client_subscriptions, s) = {} =>
                    /\ calls' = <<>>
                    /\ UNCHANGED <<mqttVars, muxVars>>]_vars

\* C7 witness: the session was the last one of two patterns and both were
\* unsubscribed at the network level.
C7_Witness ==
    /\ lastOp.op = "unsubscribe_client_all"
    /\ \A p \in Patterns : CallCount(calls, "net", "unsubscribe", p) = 1

\* C8: the dispatch of a message invokes the forwarding callback exactly once
\* for each session registered for each pattern that matches the topic.
C8_ForwardedExactlyOnce ==
    (lastOp.op = "on_message" /\ message_callback) =>
        \A s \in Sessions, p \in Patterns :
            (s \in SessionsOf(topic_clients, p) /\ TopicMatches(p, lastOp.topic)) =>
                forwards[<<s, p>>] = 1

\* C9: a message is forwarded to a session only under a pattern the session is
\* registered for and that matches the topic; a session registered for home/#
\* receives a message on home/temp, a session registered only for office/#
\* receives none.
C9_ForwardedOnlyToMatching ==
    lastOp.op = "on_message" =>
        /\ \A s \in Sessions, p \in Patterns :
              forwards[<<s, p>>] > 0 =>
                  s \in SessionsOf(topic_clients, p) /\ TopicMatches(p, lastOp.topic)
        /\ lastOp.topic = HomeTemp =>
              \A s \in Sessions :
                  /\ (message_callback /\ s \in SessionsOf(topic_clients, HomeAll)) =>
                        forwards[<<s, HomeAll>>] >= 1
                  /\ PatternsOf(client_subscriptions, s) = {OfficeAll} =>
                        \A p \in Patterns : forwards[<<s, p>>] = 0

\* C9 witness: home/temp was dispatched, s1 (home/#) received it and s2
\* (office/# only) did not.
C9_Witness ==
    /\ lastOp.op = "on_message" /\ lastOp.topic = HomeTemp
    /\ PatternsOf(client_subscriptions, "s1") = {HomeAll}
    /\ PatternsOf(client_subscriptions, "s2") = {OfficeAll}
    /\ forwards[<<"s1", HomeAll>>] = 1
    /\ \A p \in Patterns : forwards[<<"s2", p>>] = 0

LostByBroker == lastOp.op \in {"on_disconnect", "reconnect"} /\ ~connected

\* The reconnect loop is alive and will call reconnect() at its next delay.
ReconnectLoopRunning == reconnect_thread /\ ~stop_reconnect /\ client

\* The latest connect() / disconnect() call left the client Disconnected.
LeftDisconnected == api_state \in {"connect_failed", "disconnected"}

\* C11: after a broker-initiated disconnect, and until the connection is back
\* or disconnect() is called, the reconnect loop is running and keeps issuing
\* reconnect attempts.
C11_ReconnectLoopRunsAfterBrokerDisconnect == LostByBroker => ReconnectLoopRunning

\* C12: disconnect() disables reconnection only until the next connect(): once
\* a later connect() has succeeded, reconnection is enabled again, so that a
\* broker-initiated disconnect starts the reconnect loop.
C12_ConnectReenablesReconnection ==
    [][(lastOp'.op = "on_disconnect" /\ api_state = "connect_ok") => reconnect_thread']_vars

\* C13: once disconnect() has returned, or connect() has returned false,
\* is_connected stays false until connect() is called again, whatever
\* acknowledgement or reconnect-thread step arrives.
C13_DisconnectedLeftOnlyThroughConnect == LeftDisconnected => ~connected

InvocationCount(inv, c, topic, payload) ==
    Cardinality({i \in 1..Len(inv) :
                    inv[i] = [callback |-> c, topic |-> topic, payload |-> payload]})

\* How many times callback c is registered under a pattern that matches topic.
RegistrationCount(mc, c, topic) ==
    Cardinality({pos \in UNION {{p} \X (1..Len(mc[p])) : p \in DOMAIN mc} :
                    TopicMatches(pos[1], topic) /\ mc[pos[1]][pos[2]] = c})

\* The string of code points the inputs decode to: "21", "é", "ff".
ExpectedPayload(raw) ==
    CASE raw = <<50, 49>> -> <<50, 49>>
      [] raw = <<195, 169>> -> <<233>>
      [] raw = <<255>> -> <<102, 102>>

\* C15: subscribe(pattern, callback) called while not connected returns false,
\* issues no network-level subscribe and leaves the registration table unchanged.
C15_SubscribeWhileDisconnected ==
    [][(lastOp'.op = "mqtt_subscribe" /\ ~connected) =>
            /\ ~lastOp'.ret
            /\ \A i \in 1..Len(calls') : calls'[i].layer # "net"
            /\ message_callbacks' = message_callbacks]_vars

\* C15 witness: a subscribe was refused while disconnected, with callbacks registered.
C15_Witness ==
    /\ lastOp.op = "mqtt_subscribe" /\ ~connected /\ ~lastOp.ret
    /\ message_callbacks # EmptyDict

\* C16: on a message, while connected, every callback registered under every
\* matching pattern is invoked once per registration with the message's topic
\* and decoded payload, none is invoked otherwise, and a callback that raises
\* does not keep the others from being invoked.
C16_EveryMatchingCallbackInvoked ==
    lastOp.op = "mqtt_on_message" =>
        /\ \A c \in {ExtCallback(id) : id \in Callbacks} :
              InvocationCount(invocations, c, lastOp.topic, ExpectedPayload(lastOp.payload))
                  = RegistrationCount(message_callbacks, c, lastOp.topic)
        /\ Len(invocations) =
              Cardinality({pos \in UNION {{p} \X (1..Len(message_callbacks[p])) :
                                             p \in DOMAIN message_callbacks} :
                              TopicMatches(pos[1], lastOp.topic)})

\* C16 witness: a message matched two patterns, each with a callback, and the
\* callbacks of both were invoked.
C16_Witness ==
    /\ lastOp.op = "mqtt_on_message"
    /\ DOMAIN message_callbacks = ClientPatterns
    /\ lastOp.topic = <<"home", "temp">>
    /\ Len(invocations) >= 2


(***************************************************************************)
(* Topic matcher against the reference matcher.                            *)
(***************************************************************************)

\* The reference matcher: with a "#" in the pattern, the segments before the
\* first "#" must each match the topic segment at the same position and the
\* "#" takes the rest of the topic, zero segments included; without "#" the
\* two have the same number of segments, each matching.  A segment matches
\* when the pattern segment is "+" or equals the topic segment.
ReferenceMatches(p, t) ==
    LET hashes == {i \in 1..Len(p) : p[i] = "#"}
        k == IF hashes = {} THEN Len(p) + 1
             ELSE CHOOSE i \in hashes : \A j \in hashes : i <= j
    IN  /\ IF hashes = {} THEN Len(t) = Len(p) ELSE Len(t) >= k - 1
        /\ \A i \in 1..(k - 1) : p[i] = "+" \/ p[i] = t[i]

\* C17: _topic_matches(pattern, topic) equals the reference matcher, and
\* matches(t, t) holds for every literal topic t.
C17_MatcherEqualsReference ==
    m_done => /\ m_result = ReferenceMatches(m_pattern, m_topic)
              /\ TopicMatches(m_topic, m_topic)

\* C17 witness: "+" matched an empty segment (a/+/b against a//b).
C17_Witness ==
    /\ m_done /\ m_result
    /\ m_pattern = <<"a", "+", "b">> /\ m_topic = <<"a", "", "b">>

(***************************************************************************)
(* Metrics Cache.                                                          *)
(***************************************************************************)

\* The value a payload of the inputs stands for under a type, None when it
\* is malformed for that type.
ExpectedValue(value_type, payload) ==
    CASE value_type = "str" -> Some(payload)
      [] payload = <<" ", "7">> ->
            Some(IF value_type = "int" THEN 7 ELSE [mant |-> 7, exp |-> 0])
      [] payload = <<"4", "2">> ->
            Some(IF value_type = "int" THEN 42 ELSE [mant |-> 42, exp |-> 0])
      [] payload = <<"-", "3">> ->
            Some(IF value_type = "int" THEN 0 - 3 ELSE [mant |-> 0 - 3, exp |-> 0])
      [] payload = <<"1", ".", "5">> /\ value_type = "float" ->
            Some([mant |-> 15, exp |-> 0 - 1])
      [] OTHER -> None

Known(topic) == topic \in DOMAIN TOPIC_MAPPINGS

\* A numeric token followed by white space and a unit, such as "42 s".
UnitSuffixed(payload) ==
    \E i \in 2..(Len(payload) - 1) :
        /\ payload[i] = " "
        /\ \A j \in 1..(i - 1) : payload[j] \in Digits
        /\ \A j \in (i + 1)..Len(payload) : payload[j] \notin Digits \cup {" "}

\* The payload is no number at all for the type of the topic.
Malformed(topic, payload) ==
    /\ Known(topic)
    /\ ExpectedValue(TOPIC_MAPPINGS[topic][2], payload) = None
    /\ ~UnitSuffixed(payload)

Valid(topic, payload) ==
    Known(topic) /\ ExpectedValue(TOPIC_MAPPINGS[topic][2], payload) # None

\* C18: after a successful field write, each registered update callback has
\* been invoked once with the post-update snapshot, and the lock is not held.
C18_WriteNotifiesEveryCallback ==
    (sys_last.op = "sys_message" /\ Valid(sys_last.topic, sys_last.payload)) =>
        /\ ~sys_lock
        /\ notified = [i \in 1..Len(update_callbacks) |->
                          [callback |-> update_callbacks[i], snapshot |-> stats]]

\* C19: a known metric topic with a malformed payload leaves the whole
\* statistics record unchanged, last_updated included, and invokes no
\* update callback.
C19_MalformedPayloadChangesNothing ==
    [][(sys_last'.op = "sys_message" /\ Malformed(sys_last'.topic, sys_last'.payload)) =>
            /\ stats' = stats
            /\ notified' = <<>>]_vars

\* C19 witness: "x" was fed to the uptime topic with a callback registered.
C19_Witness ==
    /\ sys_last.op = "sys_message"
    /\ sys_last.topic = "$SYS/broker/uptime"
    /\ sys_last.payload = <<"x">>
    /\ update_callbacks # <<>>
    /\ now > 0

\* C20: a known metric topic with a valid payload changes exactly the field
\* mapped to the topic, to the value of the payload, and last_updated, to the
\* time of the write; a topic that is not in the mapping table changes nothing.
C20_ValidPayloadChangesMappedField ==
    [][sys_last'.op = "sys_message" =>
            /\ Valid(sys_last'.topic, sys_last'.payload) =>
                  stats' = [stats EXCEPT
                               ![TOPIC_MAPPINGS[sys_last'.topic][1]] =
                                   ExpectedValue(TOPIC_MAPPINGS[sys_last'.topic][2],
                                                 sys_last'.payload),
                               !.last_updated = now]
            /\ ~Known(sys_last'.topic) => stats' = stats]_vars

\* C20 witness: "1.5" was written to the load field after time had passed.
C20_Witness ==
    /\ sys_last.op = "sys_message"
    /\ stats.load_messages_received_1min = Some([mant |-> 15, exp |-> 0 - 1])
    /\ stats.last_updated = now /\ now > 0
    /\ stats.uptime = None


\* C21: a payload made of a numeric token and a unit suffix is accepted: the
\* mapped field is set to the value of the leading numeric token.
C21_UnitSuffixAccepted ==
    (/\ sys_last.op = "sys_message"
     /\ Known(sys_last.topic)
     /\ TOPIC_MAPPINGS[sys_last.topic][2] = "int"
     /\ sys_last.payload = <<"4", "2", " ", "s">>)
        => stats[TOPIC_MAPPINGS[sys_last.topic][1]] = Some(42)

\* What the holder of the object returned by get_stats() reads from it.
HeldFields == IF held[1].alias THEN stats ELSE held[1].fields

\* C22: a snapshot returned by get_stats() is independent of the live record:
\* a metric message processed later does not change what the holder reads, and
\* an assignment to the snapshot does not change the live record, hence what
\* later get_stats() calls return.
C22_SnapshotIndependent ==
    [][/\ (sys_last'.op = "sys_message" /\ held # None) => HeldFields' = HeldFields
       /\ sys_last'.op = "mutate_snapshot" =>
             GetStats(SysSt)'.snapshot = GetStats(SysSt).snapshot]_vars

\* C22 witness: a metric was written while a caller held an earlier snapshot,
\* which the caller had changed; both differ from the live record.
C22_Witness ==
    /\ sys_last.op = "sys_message" /\ sys_last.outcome = "written"
    /\ held # None
    /\ held[1].fields.uptime = Some(99)
    /\ stats.version # None /\ stats.uptime = None


(***************************************************************************)
(* Bridge: periodic publication of the snapshot.                           *)
(***************************************************************************)

\* The value the published dictionary carries for a field of the record.
DictField(dict, attr_name) ==
    CASE attr_name = "version" -> dict.broker.version
      [] attr_name = "uptime" -> dict.broker.uptime
      [] attr_name = "clients_connected" -> dict.clients.connected
      [] OTHER -> dict.load.messages_received["1min"]

\* A metric update applied to the Bridge's snapshot is in no published snapshot.
Unpublished ==
    \E attr_name \in {"uptime", "clients_connected"} :
        /\ b_stats[attr_name] # None
        /\ b_published = None \/ DictField(b_published[1], attr_name) # b_stats[attr_name]

\* C23: between two consecutive snapshot publishes at least
\* stats_publish_interval has elapsed, and one metric message causes at most
\* one publish.
C23_AtMostOncePerInterval ==
    [][(b_last'.op = "sys_message" /\ StatsMessages(bus') # <<>>) =>
            /\ Len(StatsMessages(bus')) = 1
            /\ b_pub_time # None => b_now' - b_pub_time[1] >= StatsPublishInterval]_vars

\* C23 witness: a second snapshot was published, an interval after the first.
C23_Witness ==
    /\ b_last.op = "sys_message" /\ StatsMessages(bus) # <<>>
    /\ b_pub_time = Some(2 * StatsPublishInterval)

\* C24: every metric update applied to the Bridge's snapshot is eventually
\* contained in a published snapshot, also when no further metric message
\* arrives.
C24_EveryUpdateEventuallyPublished == Unpublished ~> ~Unpublished


(***************************************************************************)
(* Bridge: status events, commands, forwarding, shutdown.                  *)
(***************************************************************************)

\* C25: whenever the broker connection of the running Bridge changes between
\* connected and not connected, a status event carrying the new state is published on the
\* status channel.
C25_StatusPublishedOnEveryTransition ==
    [][(b_phase = "running" /\ connected' # connected) =>
            /\ StatusMessages(bus') # <<>>
            /\ StatusMessages(bus')[Len(StatusMessages(bus'))].data.connected = connected']_vars

\* The calls of publish() on the Broker Connection among `cl`.
PublishCalls(cl) == SelectSeq(cl, LAMBDA c : c.layer = "mqtt" /\ c.op = "publish")

\* A publish command that has to be forwarded: it names a non-empty topic and
\* its QoS, when given, is 0, 1 or 2.
ForwardablePublish(command) ==
    /\ command.type = "cmd_publish"
    /\ command.topic # None /\ command.topic # <<EmptyTopic>>
    /\ command.qos \in {None, <<0>>, <<1>>, <<2>>}

\* C26: a publish command is forwarded to the Broker Connection exactly once,
\* with its topic, payload, qos and retain (qos defaulting to 0, retain to
\* false), iff its topic is non-empty and its QoS is 0, 1 or 2; any other
\* publish command causes no Broker Connection call.
C26_PublishForwardedIffValid ==
    [][(b_last'.op = "command" /\ b_last'.command.type = "cmd_publish") =>
            IF ForwardablePublish(b_last'.command)
            THEN /\ Len(PublishCalls(calls')) = 1
                 /\ PublishCalls(calls')[1].topic = b_last'.command.topic[1]
                 /\ PublishCalls(calls')[1].payload = b_last'.command.payload[1]
                 /\ PublishCalls(calls')[1].qos =
                        (IF b_last'.command.qos = None THEN 0 ELSE b_last'.command.qos[1])
                 /\ PublishCalls(calls')[1].retain =
                        (IF b_last'.command.retain = None THEN FALSE
                         ELSE b_last'.command.retain[1])
                 /\ \A i \in 1..Len(calls') : calls'[i].layer = "mqtt" => calls'[i].op = "publish"
            ELSE calls' = <<>>]_vars

\* C26 witness: a publish command with QoS 2 and no retain field was forwarded
\* and sent over the connection.
C26_Witness ==
    /\ b_last.op = "command" /\ b_last.command.type = "cmd_publish"
    /\ b_last.command.qos = <<2>> /\ b_last.command.retain = None
    /\ Len(PublishCalls(calls)) = 1
    /\ \E i \in 1..Len(calls) : calls[i].layer = "net" /\ calls[i].op = "publish"

\* The forwarded messages on the bus among `messages`.
ForwardedMessages(messages) ==
    SelectSeq(messages, LAMBDA m : m.channel = "mqtt:messages")

\* The tracked topic patterns that match `topic`.
TrackedMatching(tracked, topic) ==
    {p \in {tracked[i] : i \in 1..Len(tracked)} : TopicMatches(p, topic)}

\* C27: a subscribe command for a topic the Bridge already tracks issues no
\* Broker Connection subscribe and adds no callback; and as long as only
\* subscribe commands (no unsubscribe commands) were handled, an inbound
\* message is forwarded at most once per tracked pattern that matches it.
C27_DuplicateSubscribeIsNoOp ==
    [][/\ (/\ b_last'.op = "command" /\ b_last'.command.type = "cmd_subscribe"
           /\ Tracked(b_topic_callbacks, GetOr(b_last'.command.topic, EmptyTopic)))
          => /\ calls' = <<>>
             /\ message_callbacks' = message_callbacks
             /\ b_topic_callbacks' = b_topic_callbacks
       /\ (b_last'.op = "dispatch" /\ ~b_unsub_seen)
          => Len(ForwardedMessages(bus')) <=
                 Cardinality(TrackedMatching(b_topic_callbacks, b_last'.command))]_vars

\* C27 witness: while connected, a subscribe command for a tracked topic that
\* has its forwarding callback registered made no call.
C27_Witness ==
    /\ b_last.op = "command" /\ b_last.command.type = "cmd_subscribe"
    /\ b_last.command.topic = << <<"home", "#">> >>
    /\ connected /\ client
    /\ Tracked(b_topic_callbacks, <<"home", "#">>)
    /\ DictGet(message_callbacks, <<"home", "#">>, <<>>) = <<BridgeCallback(<<"home", "#">>)>>
    /\ calls = <<>>

\* The steps stop() has to attempt for the tracked topics `tracked`.
CleanupSteps(tracked) ==
    <<[step |-> "publish_status", topic |-> NoTopic]>>
    \o [i \in 1..Len(tracked) |-> [step |-> "unsubscribe", topic |-> tracked[i]]]
    \o <<[step |-> "mqtt_disconnect", topic |-> NoTopic],
         [step |-> "redis_disconnect", topic |-> NoTopic]>>

\* C28: stop() attempts, in order, the status publish, the unsubscribe of
\* every tracked topic, the broker disconnect and the bus disconnect, whatever
\* fails on the way, and returns.
C28_StopAttemptsEveryStep ==
    [][(b_last'.op = "stop") =>
            /\ [i \in 1..Len(attempts') |-> [step |-> attempts'[i].step,
                                             topic |-> attempts'[i].topic]]
                   = CleanupSteps(b_topic_callbacks)
            /\ b_phase' = "stopped"]_vars

\* C28 witness: a shutdown in which the status publish, an unsubscribe and the
\* broker disconnect all failed, and the bus disconnect was still attempted.
C28_Witness ==
    /\ b_last.op = "stop" /\ Len(attempts) >= 4
    /\ ~attempts[1].ok
    /\ \E i \in 1..Len(attempts) : attempts[i].step = "unsubscribe" /\ ~attempts[i].ok
    /\ \E i \in 1..Len(attempts) : attempts[i].step = "mqtt_disconnect" /\ ~attempts[i].ok
    /\ attempts[Len(attempts)].step = "redis_disconnect"


(***************************************************************************)
(* Topic Activity Tracker.                                                 *)
(***************************************************************************)

\* Every record's message_count is the number of qualifying messages
\* observed on its topic since the record was created.
CountsMatchObserved ==
    \A i \in 1..Len(t_topics) :
        /\ t_topics[i].topic \in DOMAIN t_observed
        /\ t_topics[i].message_count = t_observed[t_topics[i].topic]

\* C29: for a tracked topic, message_count equals the number of qualifying
\* messages observed since the record was created and never decreases while
\* the record exists, and last_seen never moves backwards.
C29_CountAndLastSeenMonotone ==
    [][/\ CountsMatchObserved'
       /\ \A i \in 1..Len(t_topics), j \in 1..Len(t_topics') :
              t_topics[i].topic = t_topics'[j].topic =>
                  /\ t_topics'[j].message_count >= t_topics[i].message_count
                  /\ t_topics'[j].last_seen >= t_topics[i].last_seen]_vars

\* C29 witness: two messages on the same topic, the second later than the
\* first, gave a record with message_count 2.
C29_Witness ==
    /\ t_last.op = "on_topic_message"
    /\ \E i \in 1..Len(t_topics) :
           /\ t_topics[i].topic = t_last.arg
           /\ t_topics[i].message_count = 2
           /\ t_topics[i].last_seen > t_topics[i].first_seen

\* A record the pruning policy evicts at time t: its last_seen is older than
\* the window.
Stale(topic_info, t) == t - topic_info.last_seen > t_timeout

\* C30: with a positive window, a listing with include_inactive=false and a
\* count query remove exactly the records whose last_seen is older than the
\* window, so the listing holds no such record and the count counts none.
C30_ListingAndCountPruneFirst ==
    [][(/\ t_timeout > 0
        /\ \/ t_last'.op = "get_topics" /\ t_last'.arg = FALSE
           \/ t_last'.op = "get_topic_count") =>
            /\ t_topics' = SelectSeq(t_topics, LAMBDA r : ~Stale(r, t_now))
            /\ t_last'.op = "get_topics" =>
                   /\ \A i \in 1..Len(t_last'.result) : ~Stale(t_last'.result[i], t_now)
                   /\ {t_last'.result[i] : i \in 1..Len(t_last'.result)}
                          = {r \in {t_topics[i] : i \in 1..Len(t_topics)} : ~Stale(r, t_now)}
            /\ t_last'.op = "get_topic_count" =>
                   t_last'.result =
                       Cardinality({i \in 1..Len(t_topics) : ~Stale(t_topics[i], t_now)})]_vars

\* C30 witness: a listing with include_inactive=false removed a stale record
\* and returned a record exactly as old as the window.
C30_Witness ==
    /\ t_last.op = "get_topics" /\ t_last.arg = FALSE
    /\ t_last.pruned > 0
    /\ \E i \in 1..Len(t_last.result) : t_now - t_last.result[i].last_seen = t_timeout


\* C31: when a listing with include_inactive=false has stopped showing topics
\* because they are older than the window, the listing with
\* include_inactive=true that follows it still shows them.
C31_InactiveStillListed ==
    [][(/\ t_last.op = "get_topics" /\ t_last.arg = FALSE /\ t_last.pruned > 0
        /\ t_last'.op = "get_topics" /\ t_last'.arg = TRUE) =>
            Len(t_last'.result) = Len(t_last.result) + t_last.pruned]_vars


\* The state a step of a service leaves behind.
CommitService(st, op) ==
    /\ CommitCore(st, op)
    /\ forwards' = NoForwards
    /\ s_subscribed' = st.s_subscribed
    /\ UNCHANGED <<message_callback, matchVars, bridgeVars, trackerVars, exceptSvc>>

\* main() runs init_sys_monitor() or init_topic_tracker().
ServiceInit ==
    \E svc \in Services, rc \in NetOutcomes :
        /\ s_init[svc] = "no"
        /\ s_init' = [s_init EXCEPT ![svc] = IF connected THEN "connected" ELSE "disconnected"]
        /\ CommitService(InitService(ServiceSt, svc, rc),
                         Op("init_service", svc, NoTopic, NoPayload, TRUE))
        /\ UNCHANGED sysVars

\* A request for the statistics or for the topic list is served.
ServiceQuery ==
    \E svc \in Services :
        /\ CommitService(ServiceSt, Op("query", svc, NoTopic, Query(ServiceSt, svc).code,
                                       Query(ServiceSt, svc).returned))
        /\ UNCHANGED <<s_init, sysVars>>

\* The broker delivers a metric message while the SysMonitor's callback is
\* registered: the dispatch thread runs _on_sys_message; the tracker's
\* callback drops topics under $SYS.
ServiceSysMessage ==
    /\ client /\ connected /\ sys_pc = "idle" /\ ~sys_lock
    /\ \E i \in 1..Len(DictGet(message_callbacks, ServicePattern("sys_monitor"), <<>>)) :
          message_callbacks[ServicePattern("sys_monitor")][i] = ServiceCallback("sys_monitor")
    /\ \E topic \in {"$SYS/broker/uptime"}, payload \in {<<"4", "2">>, <<"x">>} :
          LET st == OnSysMessage(SysSt, topic, payload, now)
          IN  /\ stats' = st.stats
              /\ sys_lock' = st.sys_lock
              /\ sys_pc' = st.sys_pc
              /\ notified' = st.notified
              /\ sys_last' = SysOp("sys_message", topic, payload, st.outcome, None)
    /\ CommitService(ServiceSt, Op("on_message", NoSession, <<"$SYS", "broker", "uptime">>,
                                   NoPayload, TRUE))
    /\ UNCHANGED <<s_init, update_callbacks, now, held>>

\* The events of the connection while its dispatch thread is not stuck in a
\* callback.
ServiceBrokerDisconnect == sys_pc = "idle" /\ BrokerDisconnect
ServiceReconnectAttempt == sys_pc = "idle" /\ ReconnectAttempt
ServiceLateAck == sys_pc = "idle" /\ LateAck

NextServices ==
    \/ ServiceInit
    \/ ServiceQuery
    \/ ServiceSysMessage
    \/ Connect
    \/ ServiceBrokerDisconnect
    \/ ServiceReconnectAttempt
    \/ ServiceLateAck

SpecServices == Init /\ [][NextServices]_vars

\* The number of forwarding callbacks of the Bridge registered for topic.
ForwardingCallbacks(mc, topic) ==
    Cardinality({i \in 1..Len(DictGet(mc, topic, <<>>)) :
                    DictGet(mc, topic, <<>>)[i] = BridgeCallback(topic)})

\* C38: while the Bridge runs, a topic is in its table of dynamically added
\* topics exactly when the Broker Connection holds one forwarding callback of
\* the Bridge for that topic.
C38_TrackedIffForwarding ==
    b_phase = "running" =>
        \A topic \in CommandTopics :
            Tracked(b_topic_callbacks, topic) <=>
                ForwardingCallbacks(message_callbacks, topic) = 1

\* The owners of the callbacks registered under topic in the table mc.
Owners(mc, topic) ==
    {DictGet(mc, topic, <<>>)[i].owner : i \in 1..Len(DictGet(mc, topic, <<>>))}

\* C37: a broker-level unsubscribe issued on behalf of one owner removes only
\* that owner's callback: the callbacks other owners registered under the
\* same pattern stay registered, so the call removes the callbacks of at
\* most one owner.
C37_UnsubscribeRemovesOneOwner ==
    [][lastOp'.op = "mqtt_unsubscribe" =>
          Cardinality(Owners(message_callbacks, lastOp'.topic)
                      \ Owners(message_callbacks', lastOp'.topic)) <= 1]_vars

\* C36: handling a metric message never leaves the SysMonitor's lock held:
\* after every metric message the handler has returned to the dispatch thread
\* and the lock is free for get_stats() and is_subscribed.
C36_LockNeverLeftHeld == ~sys_lock /\ sys_pc = "idle"

\* The state a step of a call on the SubscriptionManager leaves behind: the
\* call of client_id moves to `at`, and has returned `ret` when it is over.
CommitRace(st, client_id, op, at, ret) ==
    /\ CommitCore(st, Op(op, client_id, RacePattern, NoPayload, at = "idle"))
    /\ forwards' = NoForwards
    /\ x_pc' = [x_pc EXCEPT ![client_id] = at]
    /\ x_ret' = IF at = "idle" THEN [x_ret EXCEPT ![client_id] = ret] ELSE x_ret
    /\ UNCHANGED <<message_callback, sysVars, matchVars, bridgeVars, trackerVars, exceptRace>>

\* A session's thread calls subscribe_client: the connection check, then the
\* block under self._lock that registers the session.
RaceSubscribeEnter ==
    \E client_id \in Sessions :
        /\ x_pc[client_id] = "idle"
        /\ IF ~connected
           THEN CommitRace(St, client_id, "subscribe_client", "idle", "subscribe_false")
           ELSE LET is_new_topic == IsNewTopic(topic_clients, RacePattern)
                    added == SubAdd(St, client_id, RacePattern)
                IN  IF is_new_topic
                    THEN CommitRace(added, client_id, "subscribe_client", "subscribe_net", "-")
                    ELSE CommitRace(added, client_id, "subscribe_client", "idle",
                                    "subscribe_true")

\* The first subscriber, outside the lock, runs _subscribe_to_mqtt_topic and
\* rolls back when it fails.
RaceSubscribeNet ==
    \E client_id \in Sessions, rc \in NetOutcomes :
        /\ x_pc[client_id] = "subscribe_net"
        /\ (connected /\ client) =>
               Len(DictGet(message_callbacks, RacePattern, <<>>)) < MaxCallbacks
        /\ LET r == SubscribeToMqttTopic(St, RacePattern, rc)
           IN  IF ~r.ret
               THEN CommitRace(SubRollback(r, client_id, RacePattern), client_id,
                               "subscribe_client", "idle", "subscribe_false")
               ELSE CommitRace(r, client_id, "subscribe_client", "idle", "subscribe_true")

\* A session's thread calls unsubscribe_client: the block under self._lock.
RaceUnsubscribeEnter ==
    \E client_id \in Sessions :
        /\ x_pc[client_id] = "idle"
        /\ LET locked == UnsubscribeLocked(St, client_id, RacePattern)
           IN  IF locked.should_unsubscribe_mqtt
               THEN CommitRace(locked.st, client_id, "unsubscribe_client", "unsubscribe_net",
                               "-")
               ELSE CommitRace(locked.st, client_id, "unsubscribe_client", "idle",
                               "unsubscribe")

\* The last unsubscriber, outside the lock, runs _unsubscribe_from_mqtt_topic.
RaceUnsubscribeNet ==
    \E client_id \in Sessions, rc \in NetOutcomes :
        /\ x_pc[client_id] = "unsubscribe_net"
        /\ CommitRace(UnsubscribeFromMqttTopic(St, RacePattern, rc), client_id,
                      "unsubscribe_client", "idle", "unsubscribe")

NextRace ==
    \/ Connect
    \/ RaceSubscribeEnter
    \/ RaceSubscribeNet
    \/ RaceUnsubscribeEnter
    \/ RaceUnsubscribeNet

SpecRace == Init /\ [][NextRace]_vars

\* C35: with subscribe_client and unsubscribe_client calls of different
\* sessions interleaved, once every call has returned each session whose
\* subscribe_client returned true and that has not unsubscribed since is
\* registered for the pattern, and the Broker Connection holds the
\* multiplexer's callback for the pattern.
C35_NoSessionWithoutSubscription ==
    (\A client_id \in Sessions : x_pc[client_id] = "idle") =>
        \A client_id \in Sessions :
            x_ret[client_id] = "subscribe_true" =>
                /\ client_id \in DictGet(topic_clients, RacePattern, {})
                /\ \E i \in 1..Len(DictGet(message_callbacks, RacePattern, <<>>)) :
                       message_callbacks[RacePattern][i] = MuxCallback(RacePattern)

\* The state a step of the Broker Connection leaves behind while a subscribe()
\* call may be in flight.
CommitFlight(st, op, pc) ==
    /\ CommitCore(st, op)
    /\ forwards' = NoForwards
    /\ f_pc' = pc
    /\ UNCHANGED <<message_callback, sysVars, matchVars, bridgeVars, trackerVars, exceptFlight>>

\* A caller runs MQTTClient.subscribe(topic, callback) up to its network call;
\* a call made while not connected returns False at once.
FlightSubscribeBegin ==
    /\ f_pc = None
    /\ \E topic \in ClientPatterns, id \in Callbacks :
          IF ~connected \/ ~client
          THEN CommitFlight([St EXCEPT !.calls = <<Call("mqtt", "subscribe", topic, "-")>>],
                            Op("mqtt_subscribe", NoSession, topic, NoPayload, FALSE), None)
          ELSE /\ Len(DictGet(message_callbacks, topic, <<>>)) < MaxCallbacks
               /\ CommitFlight(SubscribeRegister(St, topic, ExtCallback(id)),
                               Op("mqtt_subscribe_register", NoSession, topic, NoPayload, FALSE),
                               Some([topic |-> topic, callback |-> ExtCallback(id)]))

\* The network call of the subscribe() in flight returns.
FlightSubscribeEnd ==
    /\ f_pc # None
    /\ \E rc \in NetOutcomes :
          LET st == SubscribeNetwork(St, f_pc[1].topic, rc)
          IN  CommitFlight(st, Op("mqtt_subscribe", NoSession, f_pc[1].topic, NoPayload, st.ret),
                           None)

\* paho delivers a message, possibly while a subscribe() is in flight.
FlightDispatch ==
    /\ client /\ connected
    /\ \E topic \in Topics, raw \in {<<50, 49>>}, raising \in SUBSET Callbacks :
       \E order \in Orderings({p \in DOMAIN message_callbacks : TopicMatches(p, topic)}) :
          CommitFlight(OnMessage(St, topic, raw, raising, order),
                       Op("mqtt_on_message", NoSession, topic, raw, TRUE), f_pc)

NextFlight ==
    \/ Connect
    \/ BrokerDisconnect
    \/ FlightSubscribeBegin
    \/ FlightSubscribeEnd
    \/ FlightDispatch

SpecFlight == Init /\ [][NextFlight]_vars

\* The callbacks invoked by the last dispatch.
Invoked == {invocations[i].callback : i \in 1..Len(invocations)}

\* C39: subscribe(pattern, callback) called while connected appends the
\* callback to the list of the pattern before the network subscribe is
\* issued, and a matching message dispatched while the network call is in
\* flight is delivered to the new callback and to the ones registered before.
C39_RegisteredBeforeNetworkCall ==
    [][/\ lastOp'.op = "mqtt_subscribe_register" =>
             /\ message_callbacks'[lastOp'.topic] =
                    Append(DictGet(message_callbacks, lastOp'.topic, <<>>), f_pc'[1].callback)
             /\ \A i \in 1..Len(calls') : calls'[i].layer # "net"
       /\ (lastOp'.op = "mqtt_on_message" /\ f_pc # None
             /\ TopicMatches(f_pc[1].topic, lastOp'.topic)) =>
             /\ f_pc[1].callback \in Invoked'
             /\ \A i \in 1..Len(message_callbacks[f_pc[1].topic]) :
                    message_callbacks[f_pc[1].topic][i] \in Invoked']_vars

\* C39 witness: a message was dispatched while the subscribe of a second
\* callback for its pattern was in flight, and both callbacks were invoked.
C39_Witness ==
    /\ lastOp.op = "mqtt_on_message"
    /\ f_pc # None
    /\ TopicMatches(f_pc[1].topic, lastOp.topic)
    /\ Len(message_callbacks[f_pc[1].topic]) = 2
    /\ message_callbacks[f_pc[1].topic][1] # message_callbacks[f_pc[1].topic][2]
    /\ Cardinality(Invoked) >= 2

\* The state a step of one of the threads around the reconnection loop
\* leaves behind.
CommitLoop(st, op) ==
    /\ CommitCore(Sync(st), Op(op, NoSession, NoTopic, NoPayload, st.connected))
    /\ forwards' = NoForwards
    /\ l_pc' = st.l_pc
    /\ l_ref' = st.l_ref
    /\ d_pc' = st.d_pc
    /\ p_pc' = st.p_pc
    /\ p_link' = st.p_link
    /\ UNCHANGED <<message_callback, sysVars, matchVars, bridgeVars, trackerVars, exceptLoop>>

\* A caller runs connect() while not connected; at most one replaced client
\* keeps its loop.
LoopConnect ==
    /\ ~connected /\ d_pc = "idle"
    /\ p_pc["current"] = "off" \/ p_pc["leaked"] = "off"
    /\ \E outcome \in {"raise", "ack", "refused", "timeout"} :
          CommitLoop(LoopConnectSt(LoopSt, outcome), "connect")

\* The acknowledgement of a CONNECT arrives: dispatcher k runs _on_connect.
PahoAck ==
    \E k \in Dispatchers, reason_ok \in BOOLEAN :
        /\ p_pc[k] = "idle" /\ p_link[k] = "pending"
        /\ CommitLoop(OnConnect([LoopSt EXCEPT !.p_link[k] = IF reason_ok THEN "up" ELSE "none"],
                                reason_ok, <<>>),
                      "on_connect")

\* The broker drops the link of a paho client: dispatcher k runs
\* _on_disconnect up to the test in _start_reconnect.
PahoDrop ==
    \E k \in Dispatchers :
        /\ p_pc[k] = "idle" /\ p_link[k] = "up"
        /\ CommitLoop(OnDisconnectSt(LoopSt, k), "on_disconnect")

\* Dispatcher k, past the test, creates and starts the reconnect thread.
PahoCreate ==
    \E k \in Dispatchers, i \in LoopIds :
        /\ p_pc[k] = "create"
        /\ l_pc[i] = "none" /\ \A j \in 1..(i - 1) : l_pc[j] # "none"
        /\ CommitLoop([LoopSt EXCEPT !.l_ref = i, !.l_pc[i] = "check", !.p_pc[k] = "idle"],
                      "start_reconnect")

\* A reconnect-loop thread evaluates the while condition and the if.
LoopCheck ==
    \E i \in LoopIds :
        /\ l_pc[i] = "check"
        /\ CommitLoop(LoopCheckSt(LoopSt, i), "loop_check")

\* The reconnect() call of a reconnect-loop thread ends.
LoopAttempt ==
    \E i \in LoopIds, outcome \in {"error", "sent"} :
        /\ l_pc[i] = "attempt"
        /\ CommitLoop(LoopAttemptSt(LoopSt, i, outcome), "reconnect")

\* self._stop_reconnect.wait(delay) returns in a reconnect-loop thread.
LoopWake ==
    \E i \in LoopIds :
        /\ l_pc[i] = "wait"
        /\ CommitLoop([LoopSt EXCEPT !.l_pc[i] = "check"], "loop_wake")

\* A caller runs disconnect() up to the join.
DisconnectBegin ==
    /\ d_pc = "idle"
    /\ CommitLoop(DisconnectBeginSt(LoopSt), "disconnect")

\* join(timeout=2) returns: the thread has ended, or two seconds have passed
\* while it is inside reconnect().
DisconnectJoin ==
    /\ d_pc = "join"
    /\ l_pc[l_ref] \in {"done", "attempt"}
    /\ CommitLoop([LoopSt EXCEPT !.d_pc = "teardown"], "disconnect_join")

\* disconnect() stops the loop of self._client, which waits for its thread,
\* and drops the client.
DisconnectTeardown ==
    /\ d_pc = "teardown"
    /\ p_pc["current"] \in {"off", "idle"}
    /\ CommitLoop(DisconnectTeardownSt(LoopSt), "disconnect_teardown")

NextLoop ==
    \/ LoopConnect
    \/ PahoAck
    \/ PahoDrop
    \/ PahoCreate
    \/ LoopCheck
    \/ LoopAttempt
    \/ LoopWake
    \/ DisconnectBegin
    \/ DisconnectJoin
    \/ DisconnectTeardown

SpecLoop == Init /\ [][NextLoop]_vars

\* The reconnect-loop threads that are running.
Running == {i \in LoopIds : Alive(l_pc, i)}

\* C40: a reconnection loop that has observed the stop signal starts no
\* further reconnect attempt and has terminated, and at no time is more than
\* one reconnection loop running.
C40_OneLoopThatStops ==
    [][/\ \A i \in LoopIds : l_pc[i] = "done" => l_pc'[i] = "done"
       /\ Cardinality(Running') <= 1]_vars

(***************************************************************************)
(* Services on the shared Broker Connection.                               *)
(***************************************************************************)

\* C33: a service initialised while the broker was not connected is
\* subscribed once the connection is established: the step that establishes
\* the connection leaves the service's pattern registered and is_subscribed
\* true.
C33_SubscribedOnReconnection ==
    [][\A svc \in Services :
          (s_init[svc] = "disconnected" /\ ~connected /\ connected') =>
              /\ s_subscribed'[svc]
              /\ ServicePattern(svc) \in DOMAIN message_callbacks']_vars

\* C34: a statistics or topic query returns an unavailable result exactly
\* when the connection is down or the service is not subscribed, and returns
\* data otherwise.
C34_QueryUnavailableExactly ==
    [][lastOp'.op = "query" =>
          /\ lastOp'.ret
          /\ (lastOp'.payload = "data") <=> (connected /\ s_subscribed[lastOp'.client])
          /\ (lastOp'.payload = "BROKER_DISCONNECTED") <=> ~connected]_vars

(***************************************************************************)
(* RedisClient.                                                            *)
(***************************************************************************)

\* C32: subscribe(channel, callback) never blocks on the client's own
\* subscription lock: no thread waits for the lock while holding it.
C32_SubscribeNeverBlocksOnOwnLock ==
    \A c \in RedisThreads :
        ~(r_pc[c].at = "start_acquire" /\ r_lock = Some(c))

====
